---- MODULE Spec2Model ----
(***************************************************************************)
(* Verification model of verdon (Avro services utilities):                 *)
(*   - the promise-aware middleware wrapper, lib/utils.js promisifyHandler *)
(*   - the promisified client emitMessage, lib/utils.js promisifyClient    *)
(*   - the HTTP proxy (bindings, receiver gate, channel creation)          *)
(*   - the tracing middleware (client and server side)                     *)
(* Each subsystem has its own variables and its own specification; the     *)
(* variables of the other subsystems stay at their idle value.             *)
(***************************************************************************)
EXTENDS Integers, Sequences, FiniteSets, TLC

(***************************************************************************)
(* Bounds.                                                                 *)
(***************************************************************************)
\* Number of promisified middleware frames in front of the terminal handler.
NumFrames == 2

Frames == 1 .. NumFrames

(***************************************************************************)
(* State.  Each part of the library has its own group of variables.        *)
(***************************************************************************)
\* promisifyHandler and the middleware pipeline
VARIABLES
  script,     \* per frame: what the user's handler does (the input)
  fstate,     \* per frame: "idle", "returned" or "threw"
  nextCalled, \* per frame: the handler has called the wrapped `next`
  promise,    \* per frame: the wrapper's `promise` (st, cause)
  prev,       \* per frame: the wrapper's `prev` variable is set
  thenReg,    \* per frame: what was registered on `promise` with .then
  doneErr,    \* per frame: the `err` captured by done's late registration
  ret,        \* per frame: the thenable returned by the handler (st, err)
  fwdDone,    \* pipeline: `next` of the frame has been called
  bwdDone,    \* pipeline: `prev` of the frame has been called
  cbs,        \* pipeline: stack of registered reverse callbacks
  cause,      \* pipeline: the error being propagated backwards
  phase,      \* pipeline: "off", "idle", "forward", "terminal", "backward", "completed"
  wres,       \* the wrapped response: kind and who set it
  result,     \* what the caller's callback received
  dupErr,     \* pipeline reported a duplicate next/prev call
  nextLog,    \* per frame: errors the wrapper passed to the pipeline's next
  prevLog,    \* per frame: errors the wrapper passed to the pipeline's prev
  revOrder,   \* frames whose reverse callback has run, in order
  handed,     \* per frame: errors the handler passed to the wrapped next
  termRan     \* the terminal handler has been invoked

mwVars == <<script, fstate, nextCalled, promise, prev, thenReg, doneErr, ret,
            fwdDone, bwdDone, cbs, cause, phase, wres, result, dupErr,
            nextLog, prevLog, revOrder, handed, termRan>>

\* promisifyClient
VARIABLES
  cstyle,    \* per call: "none" (not emitted), "callback" or "promise"
  cfired,    \* per call: the underlying callback has fired
  cerr,      \* per call: the err the underlying callback delivered
  cpromise,  \* per call: the returned promise (st, val)
  cthrew,    \* per call: the underlying callback threw
  cuser      \* per call: what the user's own callback received

clVars == <<cstyle, cfired, cerr, cpromise, cthrew, cuser>>

\* HttpProxy
VARIABLES
  bindings,  \* this._bindings: scope -> binding
  nbinds,    \* number of bind calls made so far
  rq,        \* per request: method, url, content type, trailing data
  rstage,    \* per request: where its handling stands
  rcv,       \* per request: what the receiver called back with, if it did
  jbinding,  \* per request: the binding an avro/json POST picked before parsing
  status,    \* per request: the HTTP status of the response written (0: none)
  sockw,     \* per request: the status lines written to the socket
  sockEnded, \* per request: the socket has been ended by the proxy
  chanlog,   \* per request: the channels created for it, in order
  provCalls, \* per request: number of clientProvider() invocations
  ctypeOut,  \* per request: the Content-Type header of the HTTP response
  rbody,     \* per request: the body the HTTP response was ended with
  eph,       \* per request: the ephemeral client's channel ("none", "open", "destroyed")
  emitted,   \* per request: emitMessage was called on the ephemeral client
  hookAfter  \* per request: the receiver called back with a second argument

pxVars == <<bindings, nbinds, rq, rstage, rcv, jbinding, status, sockw, sockEnded,
            chanlog, provCalls, ctypeOut, rbody, eph, emitted, hookAfter>>

\* Tracing
VARIABLES
  tHooked,        \* per client: its channel has the 'outgoingCall' listener
  tCreateMissing, \* per client: option createMissingOutgoing
  tIgnoreMissing, \* per client: option ignoreMissingIncoming
  tstore,         \* the Trace objects: id -> [uuid, calls]
  tcall           \* per call: its progress and what its context holds

trVars == <<tHooked, tCreateMissing, tIgnoreMissing, tstore, tcall>>

\* startTunnel
VARIABLES
  tnStage,  \* per tunnel attempt: "idle", "requested", "reading" or "done"
  tnRes,    \* per attempt: the CONNECT response (statusCode, head)
  tnBufs,   \* per attempt: bufs, the head and the chunks read from the socket
  tnEnded,  \* per attempt: the socket's 'end' event has fired
  tnCb      \* per attempt: the invocations of the caller's callback, in order

tnVars == <<tnStage, tnRes, tnBufs, tnEnded, tnCb>>

\* promisifyServer
VARIABLES
  svReg,     \* per handler slot: what onMessage registered, if anything
  svPromise, \* per slot: the promise wrappedHandler returned for the call
  svCb       \* per slot: the invocations of the call's response callback

svVars == <<svReg, svPromise, svCb>>

\* promisifyMiddleware
VARIABLES
  usFns,      \* per owner: the middleware installed, in order
  usFactory,  \* the invocations of dynamic middleware: <<handler, argument>>
  usLog       \* the use calls made: owner, arguments and returned value

usVars == <<usFns, usFactory, usLog>>

(***************************************************************************)
(* Part 1.  promisifyHandler running inside the middleware pipeline.       *)
(***************************************************************************)
NoErr == "none"

\* JavaScript truthiness of an error value.
Truthy(e) == e # NoErr

\* The error a handler throws or rejects with, the error it passes to next,
\* and the error of the terminal handler.
HErr(i) == IF i = 1 THEN "h1" ELSE IF i = 2 THEN "h2" ELSE "h3"
NErr(i) == IF i = 1 THEN "n1" ELSE IF i = 2 THEN "n2" ELSE "n3"
TErr == "t"

Errs == {NoErr, TErr} \cup {HErr(i) : i \in Frames} \cup {NErr(i) : i \in Frames}

\* The behaviours of a user handler.
\*   throws:   it throws synchronously before calling next
\*   callNext: when it calls next: "sync" (before returning), "async", "never"
\*   nextErr:  it passes an error to next
\*   nextCb:   the reverse callback it passes to next: "none", or one that
\*             calls prev(err) ("pass") or prev() ("swallow")
\*   ret:      what it returns: "none", a thenable chained on the promise
\*             that next() returned ("chained"), or another thenable ("indep")
Scripts ==
  {[throws |-> TRUE, callNext |-> "never", nextErr |-> FALSE, nextCb |-> "none", ret |-> "none"],
   [throws |-> FALSE, callNext |-> "never", nextErr |-> FALSE, nextCb |-> "none", ret |-> "indep"]}
  \cup
  {sc \in [throws : {FALSE}, callNext : {"sync", "async"}, nextErr : BOOLEAN,
           nextCb : {"none", "pass", "swallow"}, ret : {"none", "chained", "indep"}] :
     sc.ret = "chained" => sc.nextCb = "none"}

PromisePending == [st |-> "pending", cause |-> NoErr]
PromiseNone == [st |-> "none", cause |-> NoErr]
RetNone == [st |-> "none", o |-> "none", err |-> NoErr]
WresUnset == [kind |-> "unset", by |-> 0]
ResultPending == [kind |-> "pending", by |-> 0, err |-> NoErr]

Last(s) == s[Len(s)]
Front(s) == SubSeq(s, 1, Len(s) - 1)

\* The pipeline state as one record, so that the synchronous call chains of
\* the code can be written as nested operator applications.
MwState ==
  [script |-> script, fstate |-> fstate, nextCalled |-> nextCalled,
   promise |-> promise, prev |-> prev, thenReg |-> thenReg,
   doneErr |-> doneErr, ret |-> ret, fwdDone |-> fwdDone, bwdDone |-> bwdDone,
   cbs |-> cbs, cause |-> cause, phase |-> phase, wres |-> wres,
   result |-> result, dupErr |-> dupErr, nextLog |-> nextLog,
   prevLog |-> prevLog, revOrder |-> revOrder, handed |-> handed,
   termRan |-> termRan]

MwSet(s) ==
  /\ script' = s.script
  /\ fstate' = s.fstate
  /\ nextCalled' = s.nextCalled
  /\ promise' = s.promise
  /\ prev' = s.prev
  /\ thenReg' = s.thenReg
  /\ doneErr' = s.doneErr
  /\ ret' = s.ret
  /\ fwdDone' = s.fwdDone
  /\ bwdDone' = s.bwdDone
  /\ cbs' = s.cbs
  /\ cause' = s.cause
  /\ phase' = s.phase
  /\ wres' = s.wres
  /\ result' = s.result
  /\ dupErr' = s.dupErr
  /\ nextLog' = s.nextLog
  /\ prevLog' = s.prevLog
  /\ revOrder' = s.revOrder
  /\ handed' = s.handed
  /\ termRan' = s.termRan

RECURSIVE pipelineNext(_, _, _, _), forward(_, _), backward(_),
          pipelinePrev(_, _, _), promisifyHandler(_, _), wrappedNext(_, _)

\* onCompletion: the caller gets the propagated error, else the response.
onCompletion(s) ==
  [s EXCEPT !.phase = "completed",
            !.result = IF Truthy(s.cause)
                       THEN [kind |-> "error", by |-> 0, err |-> s.cause]
                       ELSE [kind |-> s.wres.kind, by |-> s.wres.by, err |-> NoErr]]

\* The wrapper's reverse callback: function (err, prev_) { prev = prev_; ... }
reverseCallback(s, i, err) ==
  [s EXCEPT !.prev[i] = TRUE,
            !.promise[i] = IF Truthy(err)
                           THEN [st |-> "rejected", cause |-> err]
                           ELSE [st |-> "resolved", cause |-> NoErr]]

\* Reverse phase: pop the most recently registered callback and run it.
backward(s) ==
  IF s.cbs = <<>> THEN onCompletion(s)
  ELSE LET cb == Last(s.cbs)
           s1 == [s EXCEPT !.cbs = Front(s.cbs), !.phase = "backward",
                           !.revOrder = Append(@, cb.frame)]
       IN CASE cb.kind = "wrapped" -> reverseCallback(s1, cb.frame, s1.cause)
            [] cb.kind = "pass" -> pipelinePrev(s1, cb.frame, s1.cause)
            [] OTHER -> pipelinePrev(s1, cb.frame, NoErr)

\* The `prev` the pipeline hands to a reverse callback.
pipelinePrev(s, i, err) ==
  IF s.bwdDone[i] THEN [s EXCEPT !.dupErr = TRUE, !.prevLog[i] = Append(@, err)]
  ELSE backward([s EXCEPT !.bwdDone[i] = TRUE, !.cause = err,
                          !.prevLog[i] = Append(@, err)])

\* Forward phase: run frame pos, or the terminal handler after the last one.
forward(s, pos) ==
  IF pos <= NumFrames THEN promisifyHandler(s, pos)
  ELSE [s EXCEPT !.phase = "terminal", !.termRan = TRUE]

\* The `next` the pipeline hands to frame i.
pipelineNext(s, i, err, cb) ==
  IF s.fwdDone[i] THEN [s EXCEPT !.dupErr = TRUE, !.nextLog[i] = Append(@, err)]
  ELSE LET s1 == [s EXCEPT !.fwdDone[i] = TRUE, !.nextLog[i] = Append(@, err)]
       IN IF Truthy(err)
          THEN backward([s1 EXCEPT !.cause = err, !.phase = "backward"])
          ELSE forward([s1 EXCEPT !.cbs = IF cb = "none" THEN @
                                          ELSE Append(@, [frame |-> i, kind |-> cb])],
                       i + 1)

\* The error the wrapped next forwards to the pipeline when the handler
\* gave no reverse callback: next(null, function (err, prev_) {...}).
forwardedErr(err) == NoErr

\* The function the wrapper gives the handler in place of next.
wrappedNext(s, i) ==
  LET sc == s.script[i]
      err == IF sc.nextErr THEN NErr(i) ELSE NoErr
      s1 == [s EXCEPT !.nextCalled[i] = TRUE, !.handed[i] = Append(@, err)]
  IN IF sc.nextCb # "none"
     THEN pipelineNext(s1, i, err, sc.nextCb)
     ELSE pipelineNext(s1, i, forwardedErr(err), "wrapped")

\* What promise.then(prev, prev) registers: the value `prev` has right now.
capturedPrev(isSet) == IF isSet THEN "prev" ELSE "undef"

\* The wrapper function (wreq, wres, next) up to the handler's return.
promisifyHandler(s, i) ==
  LET sc == s.script[i]
      s0 == [s EXCEPT !.promise[i] = PromisePending, !.phase = "forward"]
  IN IF sc.throws
     THEN pipelineNext([s0 EXCEPT !.fstate[i] = "threw"], i, HErr(i), "none")
     ELSE LET s1 == IF sc.callNext = "sync" THEN wrappedNext(s0, i) ELSE s0
          IN IF sc.ret # "none"
             THEN [s1 EXCEPT !.fstate[i] = "returned",
                             !.ret[i] = [st |-> "pending", o |-> "none", err |-> NoErr]]
             ELSE [s1 EXCEPT !.fstate[i] = "returned",
                             !.thenReg[i] = capturedPrev(s1.prev[i])]

\* A done that lets the rejection of next()'s promise through even though
\* the handler's own promise resolved.
done_keepCause(s, i, err) == pipelinePrev(s, i, IF Truthy(err) THEN err ELSE s.promise[i].cause)

\* done(err) of the wrapper.
done(s, i, err) ==
  IF s.prev[i] THEN pipelinePrev(s, i, err)
  ELSE [s EXCEPT !.thenReg[i] = "late", !.doneErr[i] = err]

\* err || cause
OrElse(err, c) == IF Truthy(err) THEN err ELSE c

MwInit ==
  /\ script \in [Frames -> Scripts]
  /\ fstate = [i \in Frames |-> "idle"]
  /\ nextCalled = [i \in Frames |-> FALSE]
  /\ promise = [i \in Frames |-> PromiseNone]
  /\ prev = [i \in Frames |-> FALSE]
  /\ thenReg = [i \in Frames |-> "none"]
  /\ doneErr = [i \in Frames |-> NoErr]
  /\ ret = [i \in Frames |-> RetNone]
  /\ fwdDone = [i \in Frames |-> FALSE]
  /\ bwdDone = [i \in Frames |-> FALSE]
  /\ cbs = <<>>
  /\ cause = NoErr
  /\ phase = "idle"
  /\ wres = WresUnset
  /\ result = ResultPending
  /\ dupErr = FALSE
  /\ nextLog = [i \in Frames |-> <<>>]
  /\ prevLog = [i \in Frames |-> <<>>]
  /\ revOrder = <<>>
  /\ handed = [i \in Frames |-> <<>>]
  /\ termRan = FALSE

\* The value of the middleware variables while another subsystem is modelled.
MwIdle ==
  /\ script = [i \in Frames |-> CHOOSE sc \in Scripts : sc.throws]
  /\ fstate = [i \in Frames |-> "idle"]
  /\ nextCalled = [i \in Frames |-> FALSE]
  /\ promise = [i \in Frames |-> PromiseNone]
  /\ prev = [i \in Frames |-> FALSE]
  /\ thenReg = [i \in Frames |-> "none"]
  /\ doneErr = [i \in Frames |-> NoErr]
  /\ ret = [i \in Frames |-> RetNone]
  /\ fwdDone = [i \in Frames |-> FALSE]
  /\ bwdDone = [i \in Frames |-> FALSE]
  /\ cbs = <<>>
  /\ cause = NoErr
  /\ phase = "off"
  /\ wres = WresUnset
  /\ result = ResultPending
  /\ dupErr = FALSE
  /\ nextLog = [i \in Frames |-> <<>>]
  /\ prevLog = [i \in Frames |-> <<>>]
  /\ revOrder = <<>>
  /\ handed = [i \in Frames |-> <<>>]
  /\ termRan = FALSE

\* A call enters the pipeline: the first frame runs.
StartCall ==
  /\ phase = "idle"
  /\ MwSet(forward(MwState, 1))
  /\ UNCHANGED <<clVars, pxVars, trVars, tnVars, svVars, usVars>>

\* A handler that did not call next before returning calls it later.
HandlerCallsNext(i) ==
  /\ phase \in {"forward", "terminal", "backward", "completed"}
  /\ fstate[i] = "returned"
  /\ script[i].callNext = "async"
  /\ ~nextCalled[i]
  /\ MwSet(wrappedNext(MwState, i))
  /\ UNCHANGED <<clVars, pxVars, trVars, tnVars, svVars, usVars>>

\* The terminal handler finishes; the reverse phase starts on the next tick.
TerminalDone(o) ==
  /\ phase = "terminal"
  /\ LET s1 == CASE o = "response" -> [MwState EXCEPT !.wres = [kind |-> "response", by |-> NumFrames + 1]]
                 [] o = "error" -> [MwState EXCEPT !.wres = [kind |-> "error", by |-> NumFrames + 1]]
                 [] OTHER -> [MwState EXCEPT !.cause = TErr]
     IN MwSet(backward([s1 EXCEPT !.phase = "backward"]))
  /\ UNCHANGED <<clVars, pxVars, trVars, tnVars, svVars, usVars>>

\* The thenable returned by the handler settles.
\*   "resolve":     it is fulfilled
\*   "swallowSet":  it caught the rejection of next()'s promise, set
\*                  wres.response, and is fulfilled
\*   "rejectCause": it is rejected with the rejection of next()'s promise
\*   "rejectOwn":   it is rejected with an error of the handler
RetSettles(i, o) ==
  /\ ret[i].st = "pending"
  /\ script[i].ret = "chained" => promise[i].st \in {"resolved", "rejected"}
  /\ o \in {"swallowSet", "rejectCause"} => promise[i].st = "rejected"
  /\ ret' = [ret EXCEPT ![i] =
               [st |-> "settled", o |-> o,
                err |-> CASE o = "rejectCause" -> promise[i].cause
                          [] o = "rejectOwn" -> HErr(i)
                          [] OTHER -> NoErr]]
  /\ wres' = IF o = "swallowSet" THEN [kind |-> "response", by |-> i] ELSE wres
  /\ UNCHANGED <<script, fstate, nextCalled, promise, prev, thenReg, doneErr,
                 fwdDone, bwdDone, cbs, cause, phase, result, dupErr,
                 nextLog, prevLog, revOrder, handed, termRan>>
  /\ UNCHANGED <<clVars, pxVars, trVars, tnVars, svVars, usVars>>

\* ret.then(function () { done(); }, done) fires.
DoneRuns(i) ==
  /\ ret[i].st = "settled"
  /\ MwSet(done([MwState EXCEPT !.ret[i].st = "done"], i, ret[i].err))
  /\ UNCHANGED <<clVars, pxVars, trVars, tnVars, svVars, usVars>>

\* A callback registered on the wrapper's promise fires.
PromiseThen(i) ==
  /\ thenReg[i] \in {"prev", "undef", "late"}
  /\ promise[i].st \in {"resolved", "rejected"}
  /\ LET s1 == [MwState EXCEPT !.thenReg[i] = "fired"]
     IN CASE thenReg[i] = "prev" -> MwSet(pipelinePrev(s1, i, promise[i].cause))
          [] thenReg[i] = "undef" -> MwSet(s1)
          [] OTHER -> IF promise[i].st = "rejected"
                      THEN MwSet(pipelinePrev(s1, i, OrElse(doneErr[i], promise[i].cause)))
                      ELSE MwSet(s1)
  /\ UNCHANGED <<clVars, pxVars, trVars, tnVars, svVars, usVars>>

MwNext ==
  \/ StartCall
  \/ \E i \in Frames : HandlerCallsNext(i)
  \/ \E o \in {"response", "error", "failure"} : TerminalDone(o)
  \/ \E i \in Frames, o \in {"resolve", "swallowSet", "rejectCause", "rejectOwn"} : RetSettles(i, o)
  \/ \E i \in Frames : DoneRuns(i)
  \/ \E i \in Frames : PromiseThen(i)

(***************************************************************************)
(* Part 2.  promisifyClient: emitMessage without a callback returns a      *)
(* promise that the underlying callback settles.                           *)
(***************************************************************************)
\* Number of calls emitted on the promisified client.
MaxCalls == 3

Calls == 1 .. MaxCalls

\* The error values the underlying callback can deliver:
\*   "undefined", "null"  no error
\*   "falsy"              an error value such as 0 or ''
\*   "plain"              an Error, or any object without an unwrapped method
\*   "wrappedError"       a wrapped union branch holding a declared error record
\*   "wrappedRecord"      a wrapped union branch holding a record that is no error
\*   "wrappedPrimitive"   a wrapped union branch holding a string or a number
ErrKinds == {"undefined", "null", "falsy", "plain", "wrappedError",
             "wrappedRecord", "wrappedPrimitive"}

\* typeof err.unwrapped == 'function'
hasUnwrapped(err) == err \in {"wrappedError", "wrappedRecord", "wrappedPrimitive"}

\* cause.constructor.type.typeName: the constructor of a primitive has no
\* `type`, so reading its typeName throws a TypeError.
typeNameThrows(err) == err = "wrappedPrimitive"

\* if (cause.constructor.type.typeName === 'error') { err = cause; }
unwrappedErr(err) == IF err = "wrappedError" THEN "errorRecord" ELSE err

\* err !== undefined && err !== null
isError(err) == err # "undefined" /\ err # "null"

\* The callback promisifyClient gives to the original emitMessage: the new
\* state of the promise and whether the callback threw.
emitMessageCallback(p, err, res) ==
  IF isError(err)
  THEN IF hasUnwrapped(err) /\ typeNameThrows(err)
       THEN [promise |-> p, threw |-> TRUE]
       ELSE [promise |-> IF p.st = "pending"
                         THEN [st |-> "rejected", val |-> unwrappedErr(err)]
                         ELSE p,
             threw |-> FALSE]
  ELSE [promise |-> IF p.st = "pending" THEN [st |-> "resolved", val |-> res] ELSE p,
        threw |-> FALSE]

ClInit ==
  /\ cstyle = [c \in Calls |-> "none"]
  /\ cfired = [c \in Calls |-> FALSE]
  /\ cerr = [c \in Calls |-> "undefined"]
  /\ cpromise = [c \in Calls |-> [st |-> "none", val |-> "none"]]
  /\ cthrew = [c \in Calls |-> FALSE]
  /\ cuser = [c \in Calls |-> "none"]

\* emitMessage(name, req, opts, cb): with a callback the original method is
\* used as is, without one a pending promise is returned.
EmitMessage(c, withCb) ==
  /\ cstyle[c] = "none"
  /\ cstyle' = [cstyle EXCEPT ![c] = IF withCb THEN "callback" ELSE "promise"]
  /\ cpromise' = [cpromise EXCEPT ![c] = IF withCb THEN @ ELSE [st |-> "pending", val |-> "none"]]
  /\ UNCHANGED <<cfired, cerr, cthrew, cuser>>
  /\ UNCHANGED <<mwVars, pxVars, trVars, tnVars, svVars, usVars>>

\* The original emitMessage calls back with (err, res).
UnderlyingCallback(c, err) ==
  /\ cstyle[c] # "none"
  /\ ~cfired[c]
  /\ cfired' = [cfired EXCEPT ![c] = TRUE]
  /\ cerr' = [cerr EXCEPT ![c] = err]
  /\ IF cstyle[c] = "promise"
     THEN LET r == emitMessageCallback(cpromise[c], err, "response")
          IN /\ cpromise' = [cpromise EXCEPT ![c] = r.promise]
             /\ cthrew' = [cthrew EXCEPT ![c] = r.threw]
             /\ UNCHANGED cuser
     ELSE /\ cuser' = [cuser EXCEPT ![c] = err]
          /\ UNCHANGED <<cpromise, cthrew>>
  /\ UNCHANGED cstyle
  /\ UNCHANGED <<mwVars, pxVars, trVars, tnVars, svVars, usVars>>

ClNext ==
  \/ \E c \in Calls, withCb \in BOOLEAN : EmitMessage(c, withCb)
  \/ \E c \in Calls, err \in ErrKinds : UnderlyingCallback(c, err)

(***************************************************************************)
(* Part 3.  HttpProxy: bindings, the receiver gate and channel creation.   *)
(* Strings that the code parses (URLs, scopes) are sequences of characters.*)
(***************************************************************************)
\* Number of requests the proxy receives, and of bind calls made on it.
MaxReq == 2
MaxBinds == 2

Reqs == 1 .. MaxReq

\* The scopes and the URLs of the model.
ScopeDefault == <<>>
ScopeA == <<"a">>
ScopeNames == {ScopeDefault, ScopeA}
Urls == {<<"/">>, <<"/", "a">>, <<"/", "+", "a">>, <<"a">>}

Servers == {"s1", "s2"}
Providers == {"p1"}

NoBinding == [kind |-> "none", id |-> "none", scope |-> <<>>]

\* String.prototype.split
RECURSIVE Split(_, _)
Split(s, sep) ==
  IF s = <<>> THEN << <<>> >>
  ELSE LET rest == Split(Tail(s), sep)
       IN IF Head(s) = sep THEN << <<>> >> \o rest
          ELSE << <<Head(s)>> \o Head(rest) >> \o Tail(rest)

StartsWith(s, pre) == Len(s) >= Len(pre) /\ SubSeq(s, 1, Len(pre)) = pre
Substr(s, n) == SubSeq(s, n + 1, Len(s))

\* prefix.replace(/\/+$/, '') + '/'
RECURSIVE StripSlashes(_)
StripSlashes(s) ==
  IF s # <<>> /\ s[Len(s)] = "/" THEN StripSlashes(SubSeq(s, 1, Len(s) - 1)) ELSE s

normalizePrefix(prefix) == StripSlashes(prefix) \o <<"/">>

\* The prefix postRequestHandler is created with (its default).
PostPrefix == normalizePrefix(<<"/">>)

\* function extractScopes(url)
extractScopes(url) == Split(Split(url, "/")[1], "+")

\* A bindServer that keeps the binding a scope already has.
bindServer_keepFirst(bs, server, scope) ==
  IF bs[scope].kind # "none" THEN bs
  ELSE [bs EXCEPT ![scope] = [kind |-> "server", id |-> server, scope |-> scope]]

\* bindServer and bindClientProvider: this._bindings.set(scope, {...}).
bindServer(bs, server, scope) ==
  [bs EXCEPT ![scope] = [kind |-> "server", id |-> server, scope |-> scope]]

bindClientProvider(bs, provider, scope) ==
  [bs EXCEPT ![scope] = [kind |-> "provider", id |-> provider, scope |-> scope]]

\* A lookup that ignores the scope and takes the default scope's binding.
bindingOf_default(bs, scope) == bs[ScopeDefault]

\* The binding createChannels looks up for a scope; an unknown scope has none.
bindingOf(bs, scope) == IF scope \in DOMAIN bs THEN bs[scope] ELSE NoBinding

\* createChannels(transport, scopes, {objectMode}): an error when a scope has
\* no binding, or has a client provider and the transport is a function;
\* else one channel per scope, on the bound server or on the provider's
\* client, with the binding's scope.
createChannels(bs, transportIsFn, scopes, objectMode) ==
  IF \E k \in 1 .. Len(scopes) :
       \/ bindingOf(bs, scopes[k]) = NoBinding
       \/ (bindingOf(bs, scopes[k]).kind # "server" /\ transportIsFn)
  THEN [err |-> TRUE, chans |-> <<>>]
  ELSE [err |-> FALSE,
        chans |-> [k \in 1 .. Len(scopes) |->
                     [kind |-> bindingOf(bs, scopes[k]).kind,
                      id |-> bindingOf(bs, scopes[k]).id,
                      scope |-> bindingOf(bs, scopes[k]).scope,
                      objectMode |-> objectMode]]]

\* Number of provider invocations among new channels.
RECURSIVE CountProviders(_)
CountProviders(chs) ==
  IF chs = <<>> THEN 0
  ELSE (IF Head(chs).kind = "provider" THEN 1 ELSE 0) + CountProviders(Tail(chs))

NoRequest == [method |-> "none", url |-> <<>>, ctype |-> "none", head |-> FALSE,
              body |-> "none"]

\* The requests of the model.  The body of an avro/json POST is "valid", is
\* not JSON ("badJson"), names a message the service does not have
\* ("unknownMessage"), or holds a request or headers that do not decode
\* ("badRequest", "badHeaders").
RequestInputs ==
  {[method |-> "POST", url |-> u, ctype |-> ct, head |-> FALSE,
    body |-> IF ct = "avro/json" THEN "valid" ELSE "none"] :
     u \in Urls, ct \in {"avro/binary", "avro/json"}}
  \cup {[method |-> "POST", url |-> u, ctype |-> "text/plain", head |-> FALSE, body |-> "none"] :
          u \in {<<"/">>, <<"a">>}}
  \cup {[method |-> "POST", url |-> <<"/">>, ctype |-> "avro/json", head |-> FALSE, body |-> b] :
          b \in {"badJson", "unknownMessage", "badRequest", "badHeaders"}}
  \cup {[method |-> "GET", url |-> <<"/">>, ctype |-> "none", head |-> FALSE, body |-> "none"]}
  \cup {[method |-> "CONNECT", url |-> u, ctype |-> "none", head |-> FALSE, body |-> "none"] :
          u \in Urls}
  \cup {[method |-> m, url |-> u, ctype |-> "none", head |-> (m = "CONNECT"), body |-> "none"] :
          m \in {"CONNECT", "UPGRADE"}, u \in {<<"/">>, <<"/", "a">>}}

\* What res.end is given: nothing yet, a text, or the JSON of jres.
NoBody == [kind |-> "none", msg |-> "", headers |-> FALSE, response |-> FALSE, error |-> FALSE]
TextBody(msg) == [kind |-> "text", msg |-> msg, headers |-> FALSE, response |-> FALSE, error |-> FALSE]

PxInit ==
  /\ bindings = [s \in ScopeNames |-> NoBinding]
  /\ nbinds = 0
  /\ rq = [r \in Reqs |-> NoRequest]
  /\ rstage = [r \in Reqs |-> "none"]
  /\ rcv = [r \in Reqs |-> "pending"]
  /\ jbinding = [r \in Reqs |-> NoBinding]
  /\ status = [r \in Reqs |-> 0]
  /\ sockw = [r \in Reqs |-> <<>>]
  /\ sockEnded = [r \in Reqs |-> FALSE]
  /\ chanlog = [r \in Reqs |-> <<>>]
  /\ provCalls = [r \in Reqs |-> 0]
  /\ ctypeOut = [r \in Reqs |-> "none"]
  /\ rbody = [r \in Reqs |-> NoBody]
  /\ eph = [r \in Reqs |-> "none"]
  /\ emitted = [r \in Reqs |-> FALSE]
  /\ hookAfter = [r \in Reqs |-> FALSE]

BindServer(server, scope) ==
  /\ nbinds < MaxBinds
  /\ nbinds' = nbinds + 1
  /\ bindings' = bindServer(bindings, server, scope)
  /\ UNCHANGED <<rcv, rq, rstage, jbinding, status, sockw, sockEnded, chanlog, provCalls,
                 ctypeOut, rbody, eph, emitted, hookAfter>>
  /\ UNCHANGED <<mwVars, clVars, trVars, tnVars, svVars, usVars>>

BindClientProvider(provider, scope) ==
  /\ nbinds < MaxBinds
  /\ nbinds' = nbinds + 1
  /\ bindings' = bindClientProvider(bindings, provider, scope)
  /\ UNCHANGED <<rcv, rq, rstage, jbinding, status, sockw, sockEnded, chanlog, provCalls,
                 ctypeOut, rbody, eph, emitted, hookAfter>>
  /\ UNCHANGED <<mwVars, clVars, trVars, tnVars, svVars, usVars>>

\* A request reaches requestHandler / upgradeHandler: the receiver is called
\* (requestHandler first sets the response's Content-Type to text/plain).
Request(r, req) ==
  /\ rstage[r] = "none"
  /\ \A q \in Reqs : q < r => rstage[q] # "none"
  /\ rq' = [rq EXCEPT ![r] = req]
  /\ rstage' = [rstage EXCEPT ![r] = "receiver"]
  /\ ctypeOut' = [ctypeOut EXCEPT ![r] = IF req.method \in {"POST", "GET"} THEN "text/plain" ELSE @]
  /\ UNCHANGED <<rcv, bindings, nbinds, jbinding, status, sockw, sockEnded, chanlog,
                 provCalls, rbody, eph, emitted, hookAfter>>
  /\ UNCHANGED <<mwVars, clVars, trVars, tnVars, svVars, usVars>>

\* A socketError that writes nothing.
socketError_silent(w, line) == w

\* socketError(sock, status, msg): the status line is written, the socket ended.
socketError(w, line) == Append(w, line)

\* res.writeHead(code); res.end(msg) with the given Content-Type.
respond(r, code, ct, body) ==
  /\ status' = [status EXCEPT ![r] = code]
  /\ ctypeOut' = [ctypeOut EXCEPT ![r] = ct]
  /\ rbody' = [rbody EXCEPT ![r] = body]

\* A callback that ignores the error.
badRequest_silent(r, msg) == UNCHANGED <<status, ctypeOut, rbody>>

\* The callback requestHandler gives to its handler, called with an error.
badRequest(r, msg) == respond(r, 400, "text/plain", TextBody(msg))

\* The body of postRequestHandler, once the receiver has admitted the request.
postRequestHandler(r) ==
  LET req == rq[r]
      scopes == extractScopes(Substr(req.url, Len(PostPrefix)))
  IN IF req.method # "POST" \/ ~StartsWith(req.url, PostPrefix)
     THEN /\ rstage' = [rstage EXCEPT ![r] = "ignored"]
          /\ UNCHANGED <<status, ctypeOut, rbody, chanlog, provCalls, jbinding>>
     ELSE IF req.ctype = "avro/binary"
     THEN LET res == createChannels(bindings, TRUE, scopes, FALSE)
          IN /\ rstage' = [rstage EXCEPT ![r] = "done"]
             /\ IF res.err
                THEN badRequest(r, "invalid scope")
                ELSE /\ ctypeOut' = [ctypeOut EXCEPT ![r] = "avro/binary"]
                     /\ UNCHANGED <<status, rbody>>
             /\ chanlog' = [chanlog EXCEPT ![r] = @ \o res.chans]
             /\ provCalls' = [provCalls EXCEPT ![r] = @ + CountProviders(res.chans)]
             /\ UNCHANGED jbinding
     ELSE IF req.ctype = "avro/json"
     THEN IF Len(scopes) # 1
          THEN /\ rstage' = [rstage EXCEPT ![r] = "done"]
               /\ badRequest(r, "invalid scopes")
               /\ UNCHANGED <<chanlog, provCalls, jbinding>>
          ELSE IF bindingOf(bindings, scopes[1]).kind # "server"
          THEN /\ rstage' = [rstage EXCEPT ![r] = "done"]
               /\ badRequest(r, "invalid scope")
               /\ UNCHANGED <<chanlog, provCalls, jbinding>>
          ELSE /\ rstage' = [rstage EXCEPT ![r] = "parsing"]
               /\ jbinding' = [jbinding EXCEPT ![r] = bindingOf(bindings, scopes[1])]
               /\ UNCHANGED <<status, ctypeOut, rbody, chanlog, provCalls>>
     ELSE /\ rstage' = [rstage EXCEPT ![r] = "done"]
          /\ badRequest(r, "invalid content type")
          /\ UNCHANGED <<chanlog, provCalls, jbinding>>

\* A check that never sees trailing data.
hasTrailingData_never(head) == FALSE

\* if (head.length)
hasTrailingData(head) == head

\* The body of connectHandler, once the receiver has admitted the request.
connectHandler(r) ==
  IF hasTrailingData(rq[r].head)
  THEN /\ sockw' = [sockw EXCEPT ![r] = socketError(@, "400 Bad Request")]
       /\ sockEnded' = [sockEnded EXCEPT ![r] = TRUE]
       /\ rstage' = [rstage EXCEPT ![r] = "done"]
       /\ UNCHANGED <<chanlog, provCalls>>
  ELSE LET res == createChannels(bindings, FALSE, extractScopes(rq[r].url), FALSE)
           w == Append(sockw[r], "200 Connection Established")
       IN /\ sockw' = [sockw EXCEPT ![r] = IF res.err THEN socketError(w, "400 Bad Request") ELSE w]
          /\ sockEnded' = [sockEnded EXCEPT ![r] = res.err]
          /\ chanlog' = [chanlog EXCEPT ![r] = @ \o res.chans]
          /\ provCalls' = [provCalls EXCEPT ![r] = @ + CountProviders(res.chans)]
          /\ rstage' = [rstage EXCEPT ![r] = "done"]

\* A gate that lets every request through.
receiverGate_open(err) == FALSE

\* if (err) { ...403...; return; } in requestHandler and upgradeHandler.
receiverGate(err) == err

\* What the receiver calls back with: cb(err), cb() or cb(null, hookAfter).
ReceiverInputs ==
  {[err |-> TRUE, hook |-> FALSE], [err |-> FALSE, hook |-> FALSE],
   [err |-> FALSE, hook |-> TRUE]}

\* The channels handed to hookAfter: the callback the proxy gives the
\* receiver has the single parameter err, its second argument is never read.
hookAfterCalls(r) == <<>>

\* The receiver calls back.  With an error the request is refused with 403;
\* without one the handler's body runs.
ReceiverCallback(r, err, hook) ==
  /\ rstage[r] = "receiver"
  /\ rcv' = [rcv EXCEPT ![r] = IF err THEN "error" ELSE "ok"]
  /\ hookAfter' = [hookAfter EXCEPT ![r] = hook]
  /\ IF receiverGate(err)
     THEN /\ rstage' = [rstage EXCEPT ![r] = "denied"]
          /\ IF rq[r].method \in {"POST", "GET"}
             THEN /\ respond(r, 403, ctypeOut[r], TextBody("receiver error"))
                  /\ UNCHANGED <<sockw, sockEnded>>
             ELSE /\ sockw' = [sockw EXCEPT ![r] = socketError(@, "403 Forbidden")]
                  /\ sockEnded' = [sockEnded EXCEPT ![r] = TRUE]
                  /\ UNCHANGED <<status, ctypeOut, rbody>>
          /\ UNCHANGED <<jbinding, chanlog, provCalls>>
     ELSE CASE rq[r].method \in {"POST", "GET"} ->
                 /\ postRequestHandler(r)
                 /\ UNCHANGED <<sockw, sockEnded>>
            [] rq[r].method = "CONNECT" ->
                 /\ connectHandler(r)
                 /\ UNCHANGED <<status, ctypeOut, rbody, jbinding>>
            [] OTHER ->
                 \* webSocketHandler: wsServer.handleUpgrade(req, sock, head, cb)
                 /\ rstage' = [rstage EXCEPT ![r] = "upgrading"]
                 /\ UNCHANGED <<status, ctypeOut, rbody, jbinding, sockw, sockEnded,
                                chanlog, provCalls>>
  /\ UNCHANGED <<bindings, nbinds, rq, eph, emitted>>
  /\ UNCHANGED <<mwVars, clVars, trVars, tnVars, svVars, usVars>>

\* The WebSocket handshake is done and ws calls the callback, a plain
\* function in which `this` is not the proxy: this.createChannels throws.
WsUpgraded(r) ==
  /\ rstage[r] = "upgrading"
  /\ rstage' = [rstage EXCEPT ![r] = "crashed"]
  /\ sockw' = [sockw EXCEPT ![r] = Append(@, "101 Switching Protocols")]
  /\ UNCHANGED <<rcv, bindings, nbinds, rq, jbinding, status, sockEnded, chanlog, provCalls,
                 ctypeOut, rbody, eph, emitted, hookAfter>>
  /\ UNCHANGED <<mwVars, clVars, trVars, tnVars, svVars, usVars>>

\* A parser that accepts every body.
parseBody_lenient(body, ioErr) == "none"

\* parseBody(req, service, cb): the error it calls back with, if any.  A
\* request or headers that fail to decode are left as they are ("continue
\* further to allow for a better error message"): no error is reported.
parseBody(body, ioErr) ==
  IF ioErr THEN "stream error"
  ELSE IF body = "badJson" THEN "parse error"
  ELSE IF body = "unknownMessage" THEN "unknown message"
  ELSE "none"

\* parseBody calls back: with an error (400), or with the parsed request, and
\* then the ephemeral client and its channel are created, the message is
\* emitted, and createChannels binds the other end of the in-memory streams.
BodyParsed(r, ioErr) ==
  /\ rstage[r] = "parsing"
  /\ IF parseBody(rq[r].body, ioErr) # "none"
     THEN /\ rstage' = [rstage EXCEPT ![r] = "done"]
          /\ badRequest(r, parseBody(rq[r].body, ioErr))
          /\ UNCHANGED <<chanlog, provCalls, eph, emitted>>
     ELSE LET scopes == extractScopes(Substr(rq[r].url, Len(PostPrefix)))
              res == createChannels(bindings, FALSE, scopes, FALSE)
              client == [kind |-> "ephemeral", id |-> jbinding[r].id,
                         scope |-> scopes[1], objectMode |-> FALSE]
          IN /\ rstage' = [rstage EXCEPT ![r] = "emitted"]
             /\ eph' = [eph EXCEPT ![r] = "open"]
             /\ emitted' = [emitted EXCEPT ![r] = TRUE]
             /\ IF res.err THEN badRequest(r, "invalid scope")
                ELSE UNCHANGED <<status, ctypeOut, rbody>>
             /\ chanlog' = [chanlog EXCEPT ![r] = (@ \o <<client>>) \o res.chans]
             /\ provCalls' = [provCalls EXCEPT ![r] = @ + CountProviders(res.chans)]
  /\ UNCHANGED <<rcv, bindings, nbinds, rq, jbinding, sockw, sockEnded, hookAfter>>
  /\ UNCHANGED <<mwVars, clVars, trVars, tnVars, svVars, usVars>>

\* A body that holds the response and the error at once.
jsonBody_both(hasErr) ==
  [kind |-> "json", msg |-> "", headers |-> TRUE, response |-> TRUE, error |-> TRUE]

\* jres: {headers} and then error if err !== undefined, else response.
jsonBody(hasErr) ==
  [kind |-> "json", msg |-> "", headers |-> TRUE, response |-> ~hasErr, error |-> hasErr]

\* A destroyChannels that leaves the channel open.
destroyChannels_keep(e) == e

\* client.destroyChannels()
destroyChannels(e) == IF e = "open" THEN "destroyed" ELSE e

\* The ephemeral client's call completes, with an error or a response (a
\* request or headers that did not decode cannot be sent: the call fails):
\* the client's channels are destroyed and the JSON response is written.
JsonResponse(r, hasErr) ==
  /\ rstage[r] = "emitted"
  /\ rq[r].body \in {"badRequest", "badHeaders"} => hasErr
  /\ rstage' = [rstage EXCEPT ![r] = "done"]
  /\ eph' = [eph EXCEPT ![r] = destroyChannels(@)]
  /\ IF status[r] = 0
     THEN respond(r, 200, "avro/json", jsonBody(hasErr))
     ELSE UNCHANGED <<status, ctypeOut, rbody>>
  /\ UNCHANGED <<rcv, bindings, nbinds, rq, jbinding, sockw, sockEnded, chanlog, provCalls,
                 emitted, hookAfter>>
  /\ UNCHANGED <<mwVars, clVars, trVars, tnVars, svVars, usVars>>

PxNext ==
  \/ \E s \in Servers, sc \in ScopeNames : BindServer(s, sc)
  \/ \E pr \in Providers, sc \in ScopeNames : BindClientProvider(pr, sc)
  \/ \E r \in Reqs, req \in RequestInputs : Request(r, req)
  \/ \E r \in Reqs, cb \in ReceiverInputs : ReceiverCallback(r, cb.err, cb.hook)
  \/ \E r \in Reqs : WsUpgraded(r)
  \/ \E r \in Reqs, ioErr \in BOOLEAN : BodyParsed(r, ioErr)
  \/ \E r \in Reqs, hasErr \in BOOLEAN : JsonResponse(r, hasErr)

(***************************************************************************)
(* Part 4.  Tracing: one top-level call served by a handler that makes     *)
(* downstream calls; every client and server has the tracing middleware.   *)
(***************************************************************************)
\* Number of downstream calls the handler of the top-level call may make.
MaxFanout == 2

\* Call 0 is the top-level call; calls 1 .. MaxFanout are made by its handler.
TCalls == 0 .. MaxFanout
TClients == {"top", "mid"}
clientOf(c) == IF c = 0 THEN "top" ELSE "mid"

\* Trace objects: the caller's, one per server context, one per client call
\* (created when the outgoing trace is missing).
TraceIds == {<<"app", 0>>} \cup {<<"srv", c>> : c \in TCalls} \cup {<<"new", c>> : c \in TCalls}
AppTrace == <<"app", 0>>
NoTrace == <<"none", 0>>
Unallocated == [uuid |-> NoTrace, calls |-> <<>>]

\* TRACE_TYPE.toBuffer: absent fields take the schema's defaults
\* (responseTime null, downstreamCalls and calls empty); hasCalls and
\* hasDownstream tell whether the field is present in the object.
RECURSIVE encodeCalls(_)
encodeCalls(calls) ==
  [k \in 1 .. Len(calls) |->
     <<calls[k].state, calls[k].name,
       IF calls[k].responseTime = "undefined" THEN "null" ELSE calls[k].responseTime,
       IF calls[k].hasDownstream THEN encodeCalls(calls[k].downstreamCalls)
       ELSE <<>>>>]

toBuffer(uuid, hasCalls, calls) == <<uuid, IF hasCalls THEN encodeCalls(calls) ELSE <<>>>>

\* TRACE_TYPE.fromBuffer: a new object holding what the buffer encodes.
RECURSIVE decodeCalls(_)
decodeCalls(enc) ==
  [k \in 1 .. Len(enc) |->
     [state |-> enc[k][1], name |-> enc[k][2], responseTime |-> enc[k][3],
      hasDownstream |-> TRUE, downstreamCalls |-> decodeCalls(enc[k][4])]]

\* A decoder that loses the response times.
fromBuffer_noTime(buf) ==
  [uuid |-> buf[1],
   calls |-> [k \in 1 .. Len(buf[2]) |->
                [decodeCalls(buf[2])[k] EXCEPT !.responseTime = "null"]]]

fromBuffer(buf) == [uuid |-> buf[1], calls |-> decodeCalls(buf[2])]

\* function createTrace()
createTrace(id) == [uuid |-> id, calls |-> <<>>]

NoHeader == <<>>

TCallInit ==
  [stage |-> "none", oneWay |-> FALSE, opts |-> FALSE, locals |-> NoTrace, trace |-> NoTrace,
   idx |-> 0, reqHdr |-> NoHeader, pre |-> FALSE, handlerRan |-> FALSE,
   srvLocals |-> NoTrace, resHdr |-> NoHeader, err |-> "none", wresError |-> "none"]

TrInit ==
  /\ tHooked \in [TClients -> BOOLEAN]
  /\ tCreateMissing \in [TClients -> BOOLEAN]
  /\ tIgnoreMissing \in [TClients -> BOOLEAN]
  /\ tstore = [id \in TraceIds |-> IF id = AppTrace THEN createTrace(AppTrace) ELSE Unallocated]
  /\ tcall = [c \in TCalls |-> TCallInit]

TrIdle ==
  /\ tHooked = [cl \in TClients |-> TRUE]
  /\ tCreateMissing = [cl \in TClients |-> FALSE]
  /\ tIgnoreMissing = [cl \in TClients |-> FALSE]
  /\ tstore = [id \in TraceIds |-> IF id = AppTrace THEN createTrace(AppTrace) ELSE Unallocated]
  /\ tcall = [c \in TCalls |-> [TCallInit EXCEPT !.stage = "off"]]

\* The 'outgoingCall' listener copies opts[traceKey] into ctx.locals[traceKey];
\* a channel without the listener leaves the locals empty.
outgoingCall(hooked, optsTrace) == IF hooked THEN optsTrace ELSE NoTrace

\* A middleware that never refuses a call.
missingOutgoing_never(locals, createMissingOutgoing) == FALSE

\* if (!trace) { if (createMissingOutgoing) ... else next(new Error(...)) }
missingOutgoing(locals, createMissingOutgoing) ==
  locals = NoTrace /\ ~createMissingOutgoing

\* A header that carries the whole trace.
requestHeader_whole(trace) == toBuffer(trace.uuid, TRUE, trace.calls)

\* wreq.headers[traceKey] = TRACE_TYPE.toBuffer({uuid: trace.uuid})
requestHeader(trace) == toBuffer(trace.uuid, FALSE, <<>>)

\* A middleware that starts every Call as PENDING.
initialState_pending(oneWay) == "PENDING"

\* state: this.message.oneWay ? 'ONE_WAY' : 'PENDING'
initialState(oneWay) == IF oneWay THEN "ONE_WAY" ELSE "PENDING"

\* A push that puts the new Call first.
push_front(calls, call) == <<call>> \o calls

\* trace.calls.push(call)
push(calls, call) == Append(calls, call)

\* A call is emitted, with or without the trace option; the client
\* middleware's forward part runs.  The top-level call passes the caller's
\* trace, the handler of the top-level call passes its locals.trace.
EmitCall(c, oneWay, withTrace) ==
  /\ tcall[c].stage = "none"
  /\ c = 0 => ~oneWay
  /\ c # 0 => /\ tcall[0].stage = "handling"
              /\ \A d \in 1 .. (c - 1) : tcall[d].stage # "none"
  /\ LET optsTrace == IF ~withTrace THEN NoTrace
                      ELSE IF c = 0 THEN AppTrace ELSE tcall[0].srvLocals
         locals == outgoingCall(tHooked[clientOf(c)], optsTrace)
         missing == locals = NoTrace
         trace == IF missing THEN <<"new", c>> ELSE locals
         store1 == IF missing THEN [tstore EXCEPT ![trace] = createTrace(trace)] ELSE tstore
         call == [name |-> c, state |-> initialState(oneWay),
                  responseTime |-> "undefined", hasDownstream |-> FALSE,
                  downstreamCalls |-> <<>>]
     IN IF missingOutgoing(locals, tCreateMissing[clientOf(c)])
        THEN /\ tcall' = [tcall EXCEPT ![c] = [@ EXCEPT !.stage = "completed",
                                                 !.oneWay = oneWay, !.opts = withTrace,
                                                 !.err = "missing outgoing trace"]]
             /\ UNCHANGED tstore
        ELSE /\ tstore' = [store1 EXCEPT ![trace].calls = push(@, call)]
             /\ tcall' = [tcall EXCEPT ![c] = [@ EXCEPT
                            !.stage = "sent", !.oneWay = oneWay, !.opts = withTrace,
                            !.locals = locals,
                            !.trace = trace, !.idx = Len(store1[trace].calls) + 1,
                            !.reqHdr = requestHeader(store1[trace])]]
  /\ UNCHANGED <<tHooked, tCreateMissing, tIgnoreMissing>>
  /\ UNCHANGED <<mwVars, clVars, pxVars, tnVars, svVars, usVars>>

\* if (traceBuf) { if (locals[traceKey]) { next(new Error('duplicate trace')) } }
duplicateTrace(hasHeader, localsSet) == hasHeader /\ localsSet

\* The server middleware's forward part (a one-way message is passed
\* through).  pre: an 'incomingCall' listener has already put a trace into
\* the locals.  A duplicate trace fails the call before the handler: the
\* response carries the error and no trace header.  Otherwise the trace of
\* the header goes into the locals and the handler starts.
ServerReceives(c, pre) ==
  /\ tcall[c].stage = "sent"
  /\ tcall[c].oneWay => ~pre
  /\ LET locals0 == IF pre THEN createTrace(<<"pre", c>>) ELSE Unallocated
     IN IF tcall[c].oneWay
        THEN /\ tcall' = [tcall EXCEPT ![c].stage = "completed"]
             /\ UNCHANGED tstore
        ELSE IF duplicateTrace(tcall[c].reqHdr # NoHeader, pre)
        THEN /\ tstore' = [tstore EXCEPT ![<<"srv", c>>] = locals0]
             /\ tcall' = [tcall EXCEPT ![c] = [@ EXCEPT !.stage = "responded", !.pre = pre,
                                                    !.srvLocals = <<"srv", c>>,
                                                    !.wresError = "duplicate trace"]]
        ELSE /\ tstore' = [tstore EXCEPT ![<<"srv", c>>] =
                             IF tcall[c].reqHdr # NoHeader THEN fromBuffer(tcall[c].reqHdr)
                             ELSE IF pre THEN locals0
                             ELSE createTrace(<<"srv", c>>)]
             /\ tcall' = [tcall EXCEPT ![c] = [@ EXCEPT !.stage = "handling", !.pre = pre,
                                                    !.handlerRan = TRUE,
                                                    !.srvLocals = <<"srv", c>>]]
  /\ UNCHANGED <<tHooked, tCreateMissing, tIgnoreMissing>>
  /\ UNCHANGED <<mwVars, clVars, pxVars, tnVars, svVars, usVars>>

\* The handler responds; the server middleware's reverse part writes the
\* trace of the locals, as it is now, into the response's headers.
HandlerResponds(c, isErr) ==
  /\ tcall[c].stage = "handling"
  /\ tcall' = [tcall EXCEPT ![c] = [@ EXCEPT
                 !.stage = "responded",
                 !.wresError = IF isErr THEN "handler error" ELSE "none",
                 !.resHdr = toBuffer(tstore[tcall[c].srvLocals].uuid, TRUE,
                                     tstore[tcall[c].srvLocals].calls)]]
  /\ UNCHANGED <<tHooked, tCreateMissing, tIgnoreMissing, tstore>>
  /\ UNCHANGED <<mwVars, clVars, pxVars, tnVars, svVars, usVars>>

\* A state that looks at the callback's err only.
callState_errOnly(err, wresError) == IF err THEN "ERROR" ELSE "SUCCESS"

\* call.state = (err || wres.error !== undefined) ? 'ERROR' : 'SUCCESS'
callState(err, wresError) == IF err \/ wresError # "none" THEN "ERROR" ELSE "SUCCESS"

\* The response arrives and the client middleware's reverse callback runs,
\* with or without an err.  It sets call.responseTime first.  Without a trace
\* header it throws `missing incoming trace` (the pipeline either lets the
\* exception escape, and the caller's callback never runs, or hands it to
\* the caller), or, with ignoreMissingIncoming, goes on to decode the
\* missing buffer, which throws, and calls prev(err || cause).  With a
\* header it completes the Call it pushed and calls prev(err).
ClientReceives(c, err, caught) ==
  /\ tcall[c].stage = "responded"
  /\ (tcall[c].resHdr # NoHeader \/ tIgnoreMissing[clientOf(c)]) => caught
  /\ IF tcall[c].resHdr = NoHeader
     THEN /\ tstore' = [tstore EXCEPT ![tcall[c].trace].calls[tcall[c].idx].responseTime = "date"]
          /\ IF tIgnoreMissing[clientOf(c)]
             THEN tcall' = [tcall EXCEPT ![c] = [@ EXCEPT
                              !.stage = "completed",
                              !.err = IF err THEN "transport error" ELSE "decode error"]]
             ELSE tcall' = [tcall EXCEPT ![c] = [@ EXCEPT
                              !.stage = IF caught THEN "completed" ELSE "threw",
                              !.err = IF caught THEN "missing incoming trace" ELSE "none"]]
     ELSE /\ LET downstreamCalls == fromBuffer(tcall[c].resHdr).calls
                 state == callState(err, tcall[c].wresError)
             IN tstore' = [tstore EXCEPT ![tcall[c].trace].calls[tcall[c].idx] =
                             [@ EXCEPT !.responseTime = "date", !.state = state,
                                       !.hasDownstream = TRUE,
                                       !.downstreamCalls = downstreamCalls]]
          /\ tcall' = [tcall EXCEPT ![c] = [@ EXCEPT
                         !.stage = "completed",
                         !.err = IF err THEN "transport error" ELSE tcall[c].wresError]]
  /\ UNCHANGED <<tHooked, tCreateMissing, tIgnoreMissing>>
  /\ UNCHANGED <<mwVars, clVars, pxVars, tnVars, svVars, usVars>>

TrNext ==
  \/ \E c \in TCalls, ow \in BOOLEAN, withTrace \in BOOLEAN : EmitCall(c, ow, withTrace)
  \/ \E c \in TCalls, pre \in BOOLEAN : ServerReceives(c, pre)
  \/ \E c \in TCalls, e \in BOOLEAN : HandlerResponds(c, e)
  \/ \E c \in TCalls, err \in BOOLEAN, caught \in BOOLEAN : ClientReceives(c, err, caught)

(***************************************************************************)
(* Part 5.  startTunnel: a client opens a tunnel with a CONNECT request.   *)
(***************************************************************************)
\* Number of tunnel attempts.
MaxTunnels == 2
\* Number of 'data' events a socket delivers before its 'end'.
MaxChunks == 2

Tunnels == 1 .. MaxTunnels
StatusCodes == {200, 400, 403}
Heads == {<<>>, <<"h">>}
Chunks == {<<"x">>, <<"y">>}

NoResponse == [statusCode |-> 0, head |-> <<>>]

\* res.statusMessage
statusMessage(code) ==
  CASE code = 200 -> <<"Connection Established">>
    [] code = 400 -> <<"Bad Request">>
    [] code = 403 -> <<"Forbidden">>
    [] OTHER -> <<>>

\* Buffer.concat(bufs).toString()
RECURSIVE concat(_)
concat(bufs) == IF bufs = <<>> THEN <<>> ELSE Head(bufs) \o concat(Tail(bufs))

\* A test that looks at the status only.
isFailure_statusOnly(res) == res.statusCode # 200

\* res.statusCode !== 200 || head.length
isFailure(res) == res.statusCode # 200 \/ Len(res.head) > 0

\* Buffer.concat(bufs).toString() || res.statusMessage
tunnelError(bufs, res) ==
  IF concat(bufs) # <<>> THEN concat(bufs) ELSE statusMessage(res.statusCode)

TnInit ==
  /\ tnStage = [t \in Tunnels |-> "idle"]
  /\ tnRes = [t \in Tunnels |-> NoResponse]
  /\ tnBufs = [t \in Tunnels |-> <<>>]
  /\ tnEnded = [t \in Tunnels |-> FALSE]
  /\ tnCb = [t \in Tunnels |-> <<>>]

\* startTunnel(url, opts, cb): the CONNECT request is sent.
StartTunnel(t) ==
  /\ tnStage[t] = "idle"
  /\ tnStage' = [tnStage EXCEPT ![t] = "requested"]
  /\ UNCHANGED <<tnRes, tnBufs, tnEnded, tnCb>>
  /\ UNCHANGED <<mwVars, clVars, pxVars, trVars, svVars, usVars>>

\* The request emits 'error' before any response: .on('error', cb).
RequestError(t) ==
  /\ tnStage[t] = "requested"
  /\ tnStage' = [tnStage EXCEPT ![t] = "done"]
  /\ tnCb' = [tnCb EXCEPT ![t] = Append(@, [kind |-> "error", msg |-> <<"request error">>])]
  /\ UNCHANGED <<tnRes, tnBufs, tnEnded>>
  /\ UNCHANGED <<mwVars, clVars, pxVars, trVars, svVars, usVars>>

\* The request emits 'connect' with the response, the socket and the head.
Connect(t, code, head) ==
  /\ tnStage[t] = "requested"
  /\ tnRes' = [tnRes EXCEPT ![t] = [statusCode |-> code, head |-> head]]
  /\ IF isFailure([statusCode |-> code, head |-> head])
     THEN /\ tnBufs' = [tnBufs EXCEPT ![t] = <<head>>]
          /\ tnStage' = [tnStage EXCEPT ![t] = "reading"]
          /\ UNCHANGED tnCb
     ELSE /\ tnCb' = [tnCb EXCEPT ![t] = Append(@, [kind |-> "socket", msg |-> <<>>])]
          /\ tnStage' = [tnStage EXCEPT ![t] = "done"]
          /\ UNCHANGED tnBufs
  /\ UNCHANGED tnEnded
  /\ UNCHANGED <<mwVars, clVars, pxVars, trVars, svVars, usVars>>

\* The socket emits 'data'.
SocketData(t, buf) ==
  /\ tnStage[t] = "reading"
  /\ Len(tnBufs[t]) < 1 + MaxChunks
  /\ tnBufs' = [tnBufs EXCEPT ![t] = Append(@, buf)]
  /\ UNCHANGED <<tnStage, tnRes, tnEnded, tnCb>>
  /\ UNCHANGED <<mwVars, clVars, pxVars, trVars, svVars, usVars>>

\* The socket emits 'end'.
SocketEnd(t) ==
  /\ tnStage[t] = "reading"
  /\ tnEnded' = [tnEnded EXCEPT ![t] = TRUE]
  /\ tnStage' = [tnStage EXCEPT ![t] = "done"]
  /\ tnCb' = [tnCb EXCEPT ![t] =
                Append(@, [kind |-> "error", msg |-> tunnelError(tnBufs[t], tnRes[t])])]
  /\ UNCHANGED <<tnRes, tnBufs>>
  /\ UNCHANGED <<mwVars, clVars, pxVars, trVars, svVars, usVars>>

TnNext ==
  \/ \E t \in Tunnels : StartTunnel(t)
  \/ \E t \in Tunnels : RequestError(t)
  \/ \E t \in Tunnels, code \in StatusCodes, head \in Heads : Connect(t, code, head)
  \/ \E t \in Tunnels, buf \in Chunks : SocketData(t, buf)
  \/ \E t \in Tunnels : SocketEnd(t)

(***************************************************************************)
(* Part 6.  promisifyServer: onMessage with promise-based handlers.        *)
(***************************************************************************)
\* Number of handlers registered.
MaxHandlers == 2

Slots == 1 .. MaxHandlers
MsgKinds == {"twoWay", "oneWay", "unknown"}
Arities == 0 .. 2
ErrorTypes == {"union:wrapped", "union:unwrapped"}
\* What a handler throws or rejects with: an Error, a declared error (it has
\* a wrapped method), or undefined.
SvErrs == {"Error", "declared", "undefined"}

NoHandler == [msg |-> "none", arity |-> 0, errorType |-> "none", fn |-> "none"]
SvNoPromise == [st |-> "none", val |-> "none"]

\* What a handler does when called with the request: returns a value,
\* throws, or returns a promise that settles later.
SvOutcomes ==
  {[st |-> "resolved", val |-> "v"], [st |-> "pending", val |-> "none"]}
  \cup {[st |-> "rejected", val |-> e] : e \in SvErrs}

\* A test that also wraps handlers that take the callback.
isTask_anyArity(msg, arity) == msg = "twoWay"

\* !(!msg || msg.oneWay || handler.length > 1)
isTask(msg, arity) == msg = "twoWay" /\ arity <= 1

\* A catch that never wraps.
wrapError_never(err, errorType) == err

\* err && typeof err.wrapped == 'function' &&
\* msg.errorType.typeName === 'union:wrapped' ? err.wrapped() : err
wrapError(err, errorType) ==
  IF err = "declared" /\ errorType = "union:wrapped" THEN "declared.wrapped()" ELSE err

\* .then(function (res) { cb(undefined, res); }).catch(function (err) {...})
serverCallback(settled, errorType) ==
  IF settled.st = "resolved"
  THEN [err |-> "undefined", res |-> settled.val]
  ELSE [err |-> wrapError(settled.val, errorType), res |-> "none"]

SvInit ==
  /\ svReg = [s \in Slots |-> NoHandler]
  /\ svPromise = [s \in Slots |-> SvNoPromise]
  /\ svCb = [s \in Slots |-> <<>>]

\* server.onMessage(name, handler): the handler is registered as it is, or
\* behind the wrapper that runs it as a task.
OnMessage(s, msg, arity, errorType) ==
  /\ svReg[s] = NoHandler
  /\ \A q \in Slots : q < s => svReg[q] # NoHandler
  /\ svReg' = [svReg EXCEPT ![s] =
                 [msg |-> msg, arity |-> arity, errorType |-> errorType,
                  fn |-> IF isTask(msg, arity) THEN "wrapper" ELSE "handler"]]
  /\ UNCHANGED <<svPromise, svCb>>
  /\ UNCHANGED <<mwVars, clVars, pxVars, trVars, tnVars, usVars>>

\* A call arrives for a wrapped handler: wrappedHandler.call(this, req).
HandlerCalled(s, outcome) ==
  /\ svReg[s].fn = "wrapper"
  /\ svPromise[s] = SvNoPromise
  /\ svPromise' = [svPromise EXCEPT ![s] = outcome]
  /\ UNCHANGED <<svReg, svCb>>
  /\ UNCHANGED <<mwVars, clVars, pxVars, trVars, tnVars, usVars>>

\* The promise the handler returned settles.
HandlerSettles(s, outcome) ==
  /\ svPromise[s].st = "pending"
  /\ outcome.st # "pending"
  /\ svPromise' = [svPromise EXCEPT ![s] = outcome]
  /\ UNCHANGED <<svReg, svCb>>
  /\ UNCHANGED <<mwVars, clVars, pxVars, trVars, tnVars, usVars>>

\* The then or the catch callback runs and calls cb.
ServerCallback(s) ==
  /\ svPromise[s].st \in {"resolved", "rejected"}
  /\ svCb[s] = <<>>
  /\ svCb' = [svCb EXCEPT ![s] = Append(@, serverCallback(svPromise[s], svReg[s].errorType))]
  /\ UNCHANGED <<svReg, svPromise>>
  /\ UNCHANGED <<mwVars, clVars, pxVars, trVars, tnVars, usVars>>

SvNext ==
  \/ \E s \in Slots, msg \in MsgKinds, a \in Arities, et \in ErrorTypes : OnMessage(s, msg, a, et)
  \/ \E s \in Slots, o \in SvOutcomes : HandlerCalled(s, o)
  \/ \E s \in Slots, o \in SvOutcomes : HandlerSettles(s, o)
  \/ \E s \in Slots : ServerCallback(s)

(***************************************************************************)
(* Part 7.  promisifyMiddleware: use with dynamic middleware.              *)
(***************************************************************************)
\* Number of use calls, and of arguments of one call.
MaxUses == 2
MaxArgs == 2

Owners == {"client", "server"}
\* The arguments of use: a function and its length.
UseHandlers ==
  {[id |-> "f", arity |-> 2], [id |-> "g", arity |-> 2],
   [id |-> "h", arity |-> 3], [id |-> "k", arity |-> 4]}

RECURSIVE SeqsUpTo(_, _)
SeqsUpTo(S, n) ==
  IF n = 0 THEN {<<>>}
  ELSE SeqsUpTo(S, n - 1) \cup {Append(q, x) : q \in {r \in SeqsUpTo(S, n - 1) : Len(r) = n - 1}, x \in S}

UseArgs == SeqsUpTo(UseHandlers, MaxArgs) \ {<<>>}

\* A test that takes every function for a factory.
isDynamic_always(handler) == TRUE

\* handler_.length < 3
isDynamic(handler) == handler.arity < 3

\* const handler = handler_.length < 3 ? handler_(this) : handler_;
\* the function promisifyHandler is given.
resolveHandler(handler, owner) ==
  IF isDynamic(handler)
  THEN [from |-> "factory", id |-> handler.id, arity |-> 3, owner |-> owner]
  ELSE [from |-> "argument", id |-> handler.id, arity |-> handler.arity, owner |-> owner]

UsInit ==
  /\ usFns = [o \in Owners |-> <<>>]
  /\ usFactory = <<>>
  /\ usLog = <<>>

\* owner.use(...handlers)
Use(owner, handlers) ==
  /\ Len(usLog) < MaxUses
  /\ usFns' = [usFns EXCEPT ![owner] =
                 @ \o [k \in 1 .. Len(handlers) |-> resolveHandler(handlers[k], owner)]]
  /\ usFactory' = usFactory \o
                    [k \in 1 .. Len(SelectSeq(handlers, isDynamic)) |->
                       <<SelectSeq(handlers, isDynamic)[k], owner>>]
  /\ usLog' = Append(usLog, [owner |-> owner, handlers |-> handlers, returned |-> owner])
  /\ UNCHANGED <<mwVars, clVars, pxVars, trVars, tnVars, svVars>>

UsNext == \E o \in Owners, hs \in UseArgs : Use(o, hs)

(***************************************************************************)
(* Specifications.                                                         *)
(***************************************************************************)
vars == <<mwVars, clVars, pxVars, trVars, tnVars, svVars, usVars>>

\* One specification per part; the other parts stay as constructed.
InitMw == MwInit /\ ClInit /\ PxInit /\ TrIdle /\ TnInit /\ SvInit /\ UsInit
SpecMw == InitMw /\ [][MwNext]_vars

InitClient == MwIdle /\ ClInit /\ PxInit /\ TrIdle /\ TnInit /\ SvInit /\ UsInit
SpecClient == InitClient /\ [][ClNext]_vars

InitProxy == MwIdle /\ ClInit /\ PxInit /\ TrIdle /\ TnInit /\ SvInit /\ UsInit
SpecProxy == InitProxy /\ [][PxNext]_vars

InitTracing == MwIdle /\ ClInit /\ PxInit /\ TrInit /\ TnInit /\ SvInit /\ UsInit
SpecTracing == InitTracing /\ [][TrNext]_vars

InitTunnel == MwIdle /\ ClInit /\ PxInit /\ TrIdle /\ TnInit /\ SvInit /\ UsInit
SpecTunnel == InitTunnel /\ [][TnNext]_vars

InitServer == MwIdle /\ ClInit /\ PxInit /\ TrIdle /\ TnInit /\ SvInit /\ UsInit
SpecServer == InitServer /\ [][SvNext]_vars

InitUse == MwIdle /\ ClInit /\ PxInit /\ TrIdle /\ TnInit /\ SvInit /\ UsInit
SpecUse == InitUse /\ [][UsNext]_vars

Init == MwInit /\ ClInit /\ PxInit /\ TrInit /\ TnInit /\ SvInit /\ UsInit

Next == MwNext \/ ClNext \/ PxNext \/ TrNext \/ TnNext \/ SvNext \/ UsNext

Spec == Init /\ [][Next]_vars

(***************************************************************************)
(* Claims about promisifyClient, the proxy and tracing.                    *)
(***************************************************************************)

\* C1: once the underlying callback of a call emitted without a callback has
\* fired, the returned promise is settled: rejected iff the error delivered
\* is neither undefined nor null, and otherwise resolved with the response.
C1_SettlesOnce ==
  \A c \in Calls : (cstyle[c] = "promise" /\ cfired[c]) =>
    /\ cpromise[c].st \in {"resolved", "rejected"}
    /\ cpromise[c].st = "rejected" <=> isError(cerr[c])
    /\ cpromise[c].st = "resolved" => cpromise[c].val = "response"

\* The scopes request r asks for.
RequestedScopes(r) ==
  IF rq[r].method = "POST"
  THEN extractScopes(Substr(rq[r].url, Len(PostPrefix)))
  ELSE extractScopes(rq[r].url)

\* The channels a step creates on bound servers and provided clients.
NewChannels(r) ==
  SelectSeq(SubSeq(chanlog'[r], Len(chanlog[r]) + 1, Len(chanlog'[r])),
            LAMBDA ch : ch.kind # "ephemeral")

C3_AdmissionGate ==
  \A r \in Reqs :
    /\ (\/ chanlog[r] # <<>>
        \/ provCalls[r] > 0
        \/ \E k \in 1 .. Len(sockw[r]) : sockw[r][k] = "200 Connection Established")
       => rcv[r] = "ok"
    /\ rcv[r] = "pending" => (status[r] = 0 /\ sockw[r] = <<>>)

C3_Witness ==
  \E r, q \in Reqs :
    /\ rq[r].method = "CONNECT" /\ rcv[r] = "ok"
    /\ provCalls[r] > 0
    /\ sockw[r] = <<"200 Connection Established">>
    /\ rq[q].method = "POST" /\ rcv[q] = "error"
    /\ status[q] = 403 /\ chanlog[q] = <<>>

\* The calls the handler of the top-level call has made.
Emitted == {c \in 1 .. MaxFanout : tcall[c].stage # "none"}

\* C4: once the top-level call completes, the caller's Trace holds exactly
\* one Call for it, and that Call's downstreamCalls holds exactly one Call per
\* call its handler made, in the order the calls were emitted.
C4_TraceStitching ==
  tcall[0].stage = "completed" =>
    /\ Len(tstore[AppTrace].calls) = 1
    /\ tstore[AppTrace].calls[1].name = 0
    /\ Len(tstore[AppTrace].calls[1].downstreamCalls) = Cardinality(Emitted)
    /\ \A k \in 1 .. Cardinality(Emitted) :
         tstore[AppTrace].calls[1].downstreamCalls[k].name = k

(***************************************************************************)
(* Claims about promisifyHandler.                                          *)
(***************************************************************************)

\* No timer, tick or promise callback of the call is outstanding.
MwQuiescent ==
  /\ phase \notin {"idle", "terminal"}
  /\ \A i \in Frames :
       /\ ~(fstate[i] = "returned" /\ script[i].callNext = "async" /\ ~nextCalled[i])
       /\ ret[i].st # "settled"
       /\ ~(ret[i].st = "pending" /\
            (script[i].ret = "indep" \/ promise[i].st \in {"resolved", "rejected"}))
       /\ ~(thenReg[i] \in {"prev", "undef", "late"} /\
            promise[i].st \in {"resolved", "rejected"})

\* Frame i runs a promise-style handler that calls next() with no error and
\* no reverse callback.
PromiseStyle(i) ==
  /\ ~script[i].throws
  /\ script[i].callNext # "never"
  /\ script[i].nextCb = "none"
  /\ ~script[i].nextErr
  /\ script[i].ret # "none"

\* Frame i runs a callback-style handler that calls next() with no error and
\* no reverse callback.
CallbackStyle(i) ==
  /\ ~script[i].throws
  /\ script[i].callNext # "never"
  /\ script[i].nextCb = "none"
  /\ ~script[i].nextErr
  /\ script[i].ret = "none"

\* The callbacks frame i registered on its promise have run.
FrameSettled(i) ==
  ~(thenReg[i] \in {"prev", "undef", "late"} /\ promise[i].st \in {"resolved", "rejected"})

\* C5: for a promise-style handler that calls next() without a reverse
\* callback, prev is invoked at most once, only after both the reverse
\* callback has fired and the returned thenable has settled, and once both
\* have happened (in either order) prev has been invoked exactly once.
C5_WaitForBoth ==
  \A i \in Frames : PromiseStyle(i) =>
    /\ Len(prevLog[i]) <= 1
    /\ Len(prevLog[i]) = 1 => (prev[i] /\ ret[i].st = "done")
    /\ (prev[i] /\ ret[i].st = "done" /\ FrameSettled(i)) => Len(prevLog[i]) = 1

\* C6: when the thenable returned by a handler rejects with E, the wrapper
\* hands a non-empty error to the pipeline, through next or through prev.
C6_RejectionHanded ==
  \A i \in Frames :
    (ret[i].st = "done" /\ Truthy(ret[i].err) /\ MwQuiescent) =>
      \/ \E k \in 1 .. Len(nextLog[i]) : Truthy(nextLog[i][k])
      \/ \E k \in 1 .. Len(prevLog[i]) : Truthy(prevLog[i][k])

\* C7: an error the handler gives to next, with or without a reverse
\* callback, reaches the pipeline's next, so no later frame and no terminal
\* handler runs.
C7_NextErrForwarded ==
  \A i \in Frames :
    (handed[i] # <<>> /\ Truthy(handed[i][1])) =>
      /\ nextLog[i] # <<>> /\ nextLog[i][1] = handed[i][1]
      /\ \A j \in Frames : j > i => promise[j].st = "none"
      /\ ~termRan

\* The reverse callbacks that have run, newest registration first.
RECURSIVE Decreasing(_)
Decreasing(s) ==
  IF Len(s) <= 1 THEN TRUE
  ELSE s[1] > s[2] /\ Decreasing(Tail(s))

\* C8: when a handler throws synchronously before calling next, the
\* pipeline's next is called exactly once with the thrown error, no later
\* frame and no terminal handler runs, the reverse callbacks of the earlier
\* frames run in reverse order of registration, and the call completes.
C8_SyncThrow ==
  \A i \in Frames : fstate[i] = "threw" =>
    /\ nextLog[i] = <<HErr(i)>>
    /\ \A j \in Frames : j > i => promise[j].st = "none"
    /\ ~termRan
    /\ Decreasing(revOrder)
    /\ MwQuiescent => phase = "completed"

\* C9: when a later frame failed and the handler of frame i caught the
\* rejection of the promise next() returned, set wres.response and let its
\* own promise resolve, the wrapper calls prev exactly once with no error;
\* for the outermost frame the caller then receives that response.
C9_ExplicitSwallow ==
  \A i \in Frames :
    (ret[i].st = "done" /\ ret[i].o = "swallowSet") =>
      /\ prevLog[i] = <<NoErr>>
      /\ i = 1 => /\ phase = "completed"
                  /\ result = [kind |-> "response", by |-> 1, err |-> NoErr]

C9_Witness ==
  /\ script[1].ret = "chained"
  /\ script[2].throws
  /\ promise[1] = [st |-> "rejected", cause |-> HErr(2)]
  /\ ret[1].st = "done" /\ ret[1].o = "swallowSet"
  /\ phase = "completed"

\* C10: for a callback-style handler that calls next() once with no reverse
\* callback, the wrapper calls the pipeline's next exactly once and, once the
\* reverse phase has reached the frame, calls prev exactly once.
C10_CallbackStyle ==
  \A i \in Frames : CallbackStyle(i) =>
    /\ Len(nextLog[i]) <= 1
    /\ nextCalled[i] => Len(nextLog[i]) = 1
    /\ Len(prevLog[i]) <= 1
    /\ (prev[i] /\ thenReg[i] = "fired") => Len(prevLog[i]) = 1

\* The error the claim expects for a handler whose thenable settles early.
EarlyErr == "early return"

\* Frame i's thenable settled before the reverse callback of its next fired.
EarlyReturn(i) == script[i].ret # "none" /\ thenReg[i] \in {"late", "fired"}

\* C11: when a promise-style handler's thenable settles before the reverse
\* callback of its next call has fired, then once the reverse phase has
\* reached the frame the wrapper hands an `early return` error to prev.
C11_EarlyReturn ==
  \A i \in Frames :
    (EarlyReturn(i) /\ prev[i] /\ thenReg[i] = "fired") => prevLog[i] = <<EarlyErr>>

(***************************************************************************)
(* Claims about the proxy's answers.                                       *)
(***************************************************************************)

\* The request is a POST that postRequestHandler handles.
PostHandled(r) == rq[r].method = "POST" /\ StartsWith(rq[r].url, PostPrefix)

\* The `200 Connection Established` line has been written to r's socket.
Established(r) == \E k \in 1 .. Len(sockw[r]) : sockw[r][k] = "200 Connection Established"

\* C12: when the receiver calls back with an error, a POST is answered with
\* 403 and the error's message, a CONNECT or upgrade gets `403 Forbidden`
\* written to its socket, which is ended; no channel is created and no
\* `200 Connection Established` line is written.
C12_ReceiverRejection ==
  \A r \in Reqs : rcv[r] = "error" =>
    /\ rq[r].method = "POST" =>
         (status[r] = 403 /\ rbody[r] = TextBody("receiver error"))
    /\ rq[r].method \in {"CONNECT", "UPGRADE"} =>
         (sockw[r] = <<"403 Forbidden">> /\ sockEnded[r])
    /\ chanlog[r] = <<>> /\ provCalls[r] = 0 /\ ~Established(r)

C12_Witness ==
  \E r, q \in Reqs :
    /\ rq[r].method = "CONNECT" /\ rcv[r] = "error" /\ sockEnded[r]
    /\ bindings[extractScopes(rq[r].url)[1]].kind = "server"
    /\ rq[q].method = "POST" /\ rcv[q] = "error" /\ status[q] = 403

\* A scope that r requests has no binding (bindings are never removed, so it
\* had none when the request was handled).
MissingScope(r) ==
  \E k \in 1 .. Len(RequestedScopes(r)) : bindings[RequestedScopes(r)[k]] = NoBinding

\* C13: an admitted POST that requests a scope with no binding is answered
\* with 404, an admitted CONNECT that requests one gets `404 Not Found`
\* written to its socket; no channel is created for such a request.
C13_MissingScope ==
  \A r \in Reqs : (rcv[r] = "ok" /\ MissingScope(r)) =>
    /\ (PostHandled(r) /\ rq[r].ctype \in {"avro/binary", "avro/json"}) => status[r] = 404
    /\ (rq[r].method = "CONNECT" /\ ~rq[r].head) =>
         \E k \in 1 .. Len(sockw[r]) : sockw[r][k] = "404 Not Found"
    /\ chanlog[r] = <<>>

\* C14: an admitted CONNECT that arrives with trailing data gets
\* `400 Bad Request` and nothing else written to its socket, which is ended;
\* no channel is created and no provider is invoked.
C14_TrailingData ==
  \A r \in Reqs : (rq[r].method = "CONNECT" /\ rq[r].head /\ rcv[r] = "ok") =>
    /\ sockw[r] = <<"400 Bad Request">>
    /\ sockEnded[r]
    /\ chanlog[r] = <<>> /\ provCalls[r] = 0

C14_Witness ==
  \E r \in Reqs :
    /\ rq[r].method = "CONNECT" /\ rq[r].head /\ rcv[r] = "ok"
    /\ bindings[extractScopes(rq[r].url)[1]] # NoBinding
    /\ sockw[r] = <<"400 Bad Request">>

\* C15, as stated: every admitted POST whose content type is neither
\* avro/binary nor avro/json is answered with 400, and no channel or
\* ephemeral client is created for it.
C15_UnknownContentType ==
  \A r \in Reqs :
    (rq[r].method = "POST" /\ rcv[r] = "ok" /\
     rq[r].ctype \notin {"avro/binary", "avro/json"}) =>
      /\ status[r] = 400
      /\ chanlog[r] = <<>> /\ eph[r] = "none"

\* C15, amended: an admitted POST whose URL starts with the handler's prefix
\* and whose content type is neither avro/binary nor avro/json is answered
\* with 400 and the message `invalid content type`; a POST outside the prefix
\* is ignored; in both cases no channel or ephemeral client is created.
C15_UnknownContentTypeInPrefix ==
  \A r \in Reqs :
    (rq[r].method = "POST" /\ rcv[r] = "ok" /\
     rq[r].ctype \notin {"avro/binary", "avro/json"}) =>
      /\ PostHandled(r) => (status[r] = 400 /\ rbody[r] = TextBody("invalid content type"))
      /\ ~PostHandled(r) => (status[r] = 0 /\ rbody[r] = NoBody)
      /\ chanlog[r] = <<>> /\ eph[r] = "none"

C15_Witness ==
  \E r, q \in Reqs :
    /\ rq[r].ctype = "text/plain" /\ PostHandled(r) /\ status[r] = 400
    /\ bindings[ScopeDefault].kind = "server"
    /\ rq[q].ctype = "text/plain" /\ ~PostHandled(q) /\ rstage[q] = "ignored"

\* C16: an avro/json POST that reaches a bound server and names a message the
\* service does not have is answered with 400 and `unknown message` (unless
\* the request stream failed before its body was read); no ephemeral client
\* is created and nothing is emitted.
C16_UnknownMessage ==
  \A r \in Reqs :
    (rq[r].body = "unknownMessage" /\ jbinding[r] # NoBinding /\ rstage[r] # "parsing") =>
      /\ status[r] = 400
      /\ rbody[r] \in {TextBody("unknown message"), TextBody("stream error")}
      /\ eph[r] = "none" /\ ~emitted[r]
      /\ \A k \in 1 .. Len(chanlog[r]) : chanlog[r][k].kind # "ephemeral"

C16_Witness ==
  \E r \in Reqs :
    /\ rq[r].body = "unknownMessage"
    /\ status[r] = 400 /\ rbody[r] = TextBody("unknown message")

\* C17: the response of an avro/json POST whose message was emitted has
\* status 200 and Content-Type avro/json, and its body holds headers and
\* exactly one of response and error.
C17_JsonEnvelope ==
  \A r \in Reqs : (emitted[r] /\ rstage[r] = "done") =>
    /\ status[r] = 200
    /\ ctypeOut[r] = "avro/json"
    /\ rbody[r].kind = "json" /\ rbody[r].headers
    /\ rbody[r].response # rbody[r].error

C17_Witness ==
  \E r, q \in Reqs :
    /\ emitted[r] /\ status[r] = 200 /\ rbody[r].response /\ ~rbody[r].error
    /\ emitted[q] /\ status[q] = 200 /\ rbody[q].error /\ ~rbody[q].response

\* C18: an avro/json POST that reaches a bound server and whose body is not
\* valid JSON, or whose request or headers do not decode, is answered with
\* 400 and no message is emitted.
C18_DecodeFailure ==
  \A r \in Reqs :
    (rq[r].body \in {"badJson", "badRequest", "badHeaders"} /\
     jbinding[r] # NoBinding /\ rstage[r] = "done") =>
      /\ status[r] = 400
      /\ ~emitted[r]

\* C19: the ephemeral client's channel is open only while the call is
\* outstanding: it is destroyed when the call completes with a response or
\* with an error, before the JSON response is written.
C19_EphemeralDestroyed ==
  \A r \in Reqs :
    /\ eph[r] = "open" => (rstage[r] = "emitted" /\ rbody[r] = NoBody)
    /\ (emitted[r] /\ rstage[r] = "done") => eph[r] = "destroyed"

C19_Witness ==
  \E r, q \in Reqs :
    /\ eph[r] = "destroyed" /\ rbody[r].kind = "json" /\ rbody[r].response
    /\ eph[q] = "destroyed" /\ rbody[q].kind = "json" /\ rbody[q].error

\* Every scope r requests is bound.
AllBound(r) ==
  \A k \in 1 .. Len(RequestedScopes(r)) : bindings[RequestedScopes(r)[k]] # NoBinding

\* The step's new channels are on the bindings of the requested scopes.
OnBindings(r) ==
  /\ Len(NewChannels(r)) = Len(RequestedScopes(r))
  /\ \A k \in 1 .. Len(RequestedScopes(r)) :
       /\ NewChannels(r)[k].kind = bindings[RequestedScopes(r)[k]].kind
       /\ NewChannels(r)[k].id = bindings[RequestedScopes(r)[k]].id

\* Some scope r requests is bound to a client provider.
ProviderBound(r) ==
  \E k \in 1 .. Len(RequestedScopes(r)) : bindings[RequestedScopes(r)[k]].kind = "provider"

\* C20: a POST never invokes a client provider; a POST (binary or JSON)
\* addressed to a scope bound to a provider is answered with an error status
\* and gets no channel; a CONNECT or WebSocket request whose scopes are all
\* bound, some to a provider, gets its channels on the bindings.
C20_ProviderOnlyBidirectional ==
  [][\A r \in Reqs :
       /\ rq[r].method = "POST" => provCalls'[r] = provCalls[r]
       /\ (PostHandled(r) /\ rq[r].ctype \in {"avro/binary", "avro/json"} /\
           rstage[r] = "receiver" /\ rcv'[r] = "ok" /\ ProviderBound(r)) =>
            (status'[r] >= 400 /\ chanlog'[r] = <<>>)
       /\ (rq[r].method = "CONNECT" /\ ~rq[r].head /\ rstage[r] = "receiver" /\
           rcv'[r] = "ok" /\ AllBound(r) /\ ProviderBound(r)) => OnBindings(r)
       /\ (rq[r].method = "UPGRADE" /\ rstage[r] = "upgrading" /\
           rstage'[r] # "upgrading" /\ AllBound(r) /\ ProviderBound(r)) => OnBindings(r)]_vars

\* The channels created for r on bound servers and provided clients.
BoundChannels(r) == SelectSeq(chanlog[r], LAMBDA ch : ch.kind # "ephemeral")

\* C21: when the receiver admits a request with cb(null, hookAfter),
\* hookAfter has been invoked once for each channel created for the request,
\* with that channel.
C21_HookAfter ==
  \A r \in Reqs : (rcv[r] = "ok" /\ hookAfter[r]) => hookAfterCalls(r) = BoundChannels(r)

\* Every scope of the list is bound, to a server if serverOnly.
ScopesBound(scopes, serverOnly) ==
  \A k \in 1 .. Len(scopes) :
    /\ bindings[scopes[k]] # NoBinding
    /\ serverOnly => bindings[scopes[k]].kind = "server"

\* The scopes of the channels the step creates, in order.
NewScopes(r) == [k \in 1 .. Len(NewChannels(r)) |-> NewChannels(r)[k].scope]

\* C22: a request whose URL names bound scopes gets its channels at exactly
\* those scopes: the first path segment (what follows the leading slash, up
\* to the next one) split on `+` for CONNECT and WebSocket upgrades, the
\* segment after the prefix split on `+` for POST, the default scope when no
\* scope is named.
C22_ScopeSelection ==
  [][\A r \in Reqs :
       LET url == rq[r].url
           firstSegment == Split(IF StartsWith(url, <<"/">>) THEN Tail(url) ELSE url, "/")[1]
           afterPrefix == Split(Substr(url, Len(PostPrefix)), "/")[1]
           named == Split(IF rq[r].method = "POST" THEN afterPrefix ELSE firstSegment, "+")
       IN /\ (rq[r].method = "CONNECT" /\ ~rq[r].head /\ rstage[r] = "receiver" /\
              rcv'[r] = "ok" /\ ScopesBound(named, FALSE)) => NewScopes(r) = named
          /\ (rq[r].method = "UPGRADE" /\ rstage[r] = "upgrading" /\
              rstage'[r] # "upgrading" /\ ScopesBound(named, FALSE)) => NewScopes(r) = named
          /\ (PostHandled(r) /\ rq[r].ctype = "avro/binary" /\ rstage[r] = "receiver" /\
              rcv'[r] = "ok" /\ ScopesBound(named, TRUE)) => NewScopes(r) = named]_vars

\* C23: an admitted WebSocket upgrade whose handshake is done has one
\* object-mode channel per requested scope, each on the binding of its scope,
\* or, when a requested scope has no binding, has `400 Bad Request` written
\* to its socket as connectHandler does.
C23_WebSocketAsConnect ==
  [][\A r \in Reqs :
       (rq[r].method = "UPGRADE" /\ rstage[r] = "upgrading" /\ rstage'[r] # "upgrading") =>
         IF AllBound(r)
         THEN OnBindings(r) /\ \A k \in 1 .. Len(NewChannels(r)) : NewChannels(r)[k].objectMode
         ELSE sockw'[r] = Append(sockw[r], "400 Bad Request") /\ chanlog'[r] = chanlog[r]]_vars

\* C24: startTunnel calls back with the socket when the CONNECT response
\* has status 200 and no trailing data; otherwise it calls back with an
\* error, only once the socket has ended, whose message is everything read
\* (the head and the chunks), or the status message when nothing was read.
\* The callback is invoked at most once, and exactly once when the attempt
\* is over.
C24_StartTunnel ==
  \A t \in Tunnels :
    /\ Len(tnCb[t]) <= 1
    /\ tnStage[t] = "done" <=> Len(tnCb[t]) = 1
    /\ (tnRes[t].statusCode = 200 /\ tnRes[t].head = <<>>) =>
         (tnCb[t] = <<[kind |-> "socket", msg |-> <<>>]>> /\ ~tnEnded[t])
    /\ (tnRes[t].statusCode \notin {0, 200} \/ tnRes[t].head # <<>>) =>
         /\ ~tnEnded[t] => tnCb[t] = <<>>
         /\ tnEnded[t] =>
              tnCb[t] = <<[kind |-> "error",
                           msg |-> IF concat(tnBufs[t]) = <<>>
                                   THEN statusMessage(tnRes[t].statusCode)
                                   ELSE tnRes[t].head \o concat(Tail(tnBufs[t]))]>>

C24_Witness ==
  \E t, u \in Tunnels :
    /\ tnRes[t].statusCode = 200 /\ tnRes[t].head # <<>> /\ tnEnded[t]
    /\ Len(tnBufs[t]) = 2 /\ tnCb[t][1].kind = "error"
    /\ tnRes[u].statusCode = 403 /\ tnCb[u] = <<[kind |-> "error", msg |-> <<"Forbidden">>]>>

(***************************************************************************)
(* Claims about the tracing middleware.                                    *)
(***************************************************************************)

\* The Call records reachable from a calls array.
RECURSIVE Reachable(_)
Reachable(calls) ==
  UNION {{calls[k]} \cup Reachable(calls[k].downstreamCalls) : k \in 1 .. Len(calls)}

\* The Call the client middleware pushed for call c.
CallOf(c) == tstore[tcall[c].trace].calls[tcall[c].idx]

\* C25: a call emitted without a trace option on a client configured
\* without createMissingOutgoing fails with `missing outgoing trace` in the
\* forward phase: no Call is appended to any trace, no trace header is
\* written, and the request reaches no server.
C25_MissingOutgoing ==
  \A c \in TCalls :
    (tcall[c].stage # "none" /\ ~tcall[c].opts /\ ~tCreateMissing[clientOf(c)]) =>
      /\ tcall[c].stage = "completed" /\ tcall[c].err = "missing outgoing trace"
      /\ tcall[c].reqHdr = NoHeader /\ tcall[c].trace = NoTrace
      /\ tcall[c].srvLocals = NoTrace /\ ~tcall[c].handlerRan
      /\ \A id \in TraceIds : \A k \in 1 .. Len(tstore[id].calls) : tstore[id].calls[k].name # c

C25_Witness ==
  /\ tHooked["mid"] /\ ~tCreateMissing["mid"]
  /\ tcall[1].stage = "completed" /\ ~tcall[1].opts
  /\ tcall[1].err = "missing outgoing trace"
  /\ tcall[2].stage = "sent"

\* C26: when a request carrying a trace header reaches a server whose locals
\* already hold a trace, the user handler does not run, the trace in the
\* locals is not replaced, and once the response has come back the caller's
\* callback has received the error `duplicate trace`.
C26_DuplicateTrace ==
  \A c \in TCalls : (tcall[c].pre /\ tcall[c].reqHdr # NoHeader) =>
    /\ ~tcall[c].handlerRan
    /\ tstore[<<"srv", c>>] = createTrace(<<"pre", c>>)
    /\ tcall[c].stage # "responded" =>
         (tcall[c].stage = "completed" /\ tcall[c].err = "duplicate trace")

\* C27: once the reverse callback of a two-way call has run on a response
\* that carries a trace header, the Call's state is ERROR if the callback was
\* invoked with an error or wres.error is defined and SUCCESS otherwise, and
\* its downstreamCalls are the calls of the incoming trace.
C27_ReverseCallback ==
  \A c \in TCalls :
    (tcall[c].stage = "completed" /\ ~tcall[c].oneWay /\ tcall[c].resHdr # NoHeader) =>
      /\ CallOf(c).state = IF tcall[c].err = "transport error" \/ tcall[c].wresError # "none"
                           THEN "ERROR" ELSE "SUCCESS"
      /\ CallOf(c).hasDownstream
      /\ CallOf(c).downstreamCalls = fromBuffer(tcall[c].resHdr).calls

C27_Witness ==
  /\ tcall[0].stage = "completed" /\ tcall[0].wresError = "handler error"
  /\ tcall[0].err = "handler error"
  /\ CallOf(0).state = "ERROR" /\ Len(CallOf(0).downstreamCalls) = 2
  /\ tcall[1].stage = "completed" /\ tcall[1].err = "transport error"
  /\ tcall[1].wresError = "none" /\ CallOf(1).state = "ERROR"
  /\ tcall[2].stage = "completed" /\ tcall[2].err = "none" /\ CallOf(2).state = "SUCCESS"

\* The call itself failed: its reverse callback got an err or a wres.error.
Failed(c) == tcall[c].err = "transport error" \/ tcall[c].wresError # "none"

\* C28, as stated: after the top-level call completes every Call reachable
\* from the root of the caller's trace has a non-null responseTime, and its
\* state is SUCCESS iff neither it nor any of its descendants reports an
\* error.
C28_Completeness ==
  tcall[0].stage = "completed" =>
    \A call \in Reachable(tstore[AppTrace].calls) :
      /\ call.responseTime = "date"
      /\ call.state = "SUCCESS" <=>
           \A d \in {call} \cup Reachable(call.downstreamCalls) : d.state # "ERROR"

\* C28, amended: after the top-level call completes every Call reachable
\* from the root whose state is SUCCESS or ERROR has a non-null responseTime
\* (a ONE_WAY Call, and a Call that was still PENDING when its caller's
\* handler responded, need not have one), and its state tells the outcome of that
\* call alone: SUCCESS only if the call did not fail, ERROR only if it did,
\* whatever its descendants report.
C28_OwnOutcome ==
  tcall[0].stage = "completed" =>
    \A call \in Reachable(tstore[AppTrace].calls) :
      /\ call.state \in {"SUCCESS", "ERROR"} => call.responseTime = "date"
      /\ call.state = "SUCCESS" => ~Failed(call.name)
      /\ call.state = "ERROR" => Failed(call.name)

C28_Witness ==
  /\ tcall[0].stage = "completed"
  /\ \E call \in Reachable(tstore[AppTrace].calls) :
       /\ call.name = 0 /\ call.state = "SUCCESS"
       /\ \E d \in Reachable(call.downstreamCalls) : d.state = "ERROR"
       /\ \E d \in Reachable(call.downstreamCalls) : d.state = "PENDING"

\* C29: every Call held in any trace has a null responseTime iff its state
\* is PENDING, except that a ONE_WAY Call may have a null responseTime too.
C29_ResponseTimeIffPending ==
  \A id \in TraceIds : \A call \in Reachable(tstore[id].calls) :
    \/ call.responseTime \in {"undefined", "null"} <=> call.state = "PENDING"
    \/ call.state = "ONE_WAY" /\ call.responseTime \in {"undefined", "null"}

\* C30: the trace header written on a request encodes the uuid of the
\* caller's trace and an empty calls array, whatever Calls that trace holds;
\* the trace the server stores in its locals has the caller's uuid and holds
\* none of the caller's Calls.
C30_WireEconomy ==
  \A c \in TCalls : tcall[c].reqHdr # NoHeader =>
    /\ fromBuffer(tcall[c].reqHdr) = [uuid |-> tstore[tcall[c].trace].uuid, calls |-> <<>>]
    /\ tcall[c].handlerRan =>
         /\ tstore[<<"srv", c>>].uuid = tstore[tcall[c].trace].uuid
         /\ \A k \in 1 .. Len(tstore[<<"srv", c>>].calls) :
              \A j \in 1 .. Len(tstore[tcall[c].trace].calls) :
                tstore[<<"srv", c>>].calls[k].name # tstore[tcall[c].trace].calls[j].name

C30_Witness ==
  /\ tcall[2].reqHdr # NoHeader /\ tcall[2].handlerRan
  /\ tcall[2].trace = <<"srv", 0>>
  /\ Len(tstore[<<"srv", 0>>].calls) = 2
  /\ tstore[<<"srv", 2>>] = [uuid |-> AppTrace, calls |-> <<>>]

\* C31: when the response of a two-way call carries no trace header, the
\* reverse callback fails the call with `missing incoming trace` (it throws
\* that error, whether or not the pipeline hands it to the caller), unless
\* ignoreMissingIncoming is set: then the call is not failed by tracing (it
\* ends with its own outcome) and the Call's state is SUCCESS or ERROR
\* according to that outcome, with no downstream calls.
C31_MissingIncoming ==
  \A c \in TCalls :
    (tcall[c].stage \in {"completed", "threw"} /\ ~tcall[c].oneWay /\
     tcall[c].idx # 0 /\ tcall[c].resHdr = NoHeader) =>
      IF ~tIgnoreMissing[clientOf(c)]
      THEN tcall[c].stage = "threw" \/ tcall[c].err = "missing incoming trace"
      ELSE /\ tcall[c].stage = "completed"
           /\ tcall[c].err \in {"transport error", tcall[c].wresError}
           /\ CallOf(c).state = IF Failed(c) THEN "ERROR" ELSE "SUCCESS"
           /\ CallOf(c).downstreamCalls = <<>>

\* C32: the Call appended for a one-way message has state ONE_WAY and no
\* responseTime, the trace header is written, and the Call is never modified
\* afterwards; the Call appended for a two-way message is PENDING until its
\* reverse callback runs.
C32_OneWay ==
  \A c \in TCalls : tcall[c].idx # 0 =>
    /\ tcall[c].reqHdr # NoHeader
    /\ tcall[c].oneWay =>
         CallOf(c) = [name |-> c, state |-> "ONE_WAY", responseTime |-> "undefined",
                      hasDownstream |-> FALSE, downstreamCalls |-> <<>>]
    /\ (~tcall[c].oneWay /\ tcall[c].stage \in {"sent", "handling", "responded"}) =>
         /\ CallOf(c).state = "PENDING"
         /\ CallOf(c).responseTime = "undefined"

C32_Witness ==
  /\ tcall[1].oneWay /\ tcall[1].stage = "completed" /\ tcall[1].idx = 1
  /\ ~tcall[2].oneWay /\ tcall[2].stage = "completed" /\ tcall[2].idx = 2
  /\ tcall[2].trace = tcall[1].trace
  /\ CallOf(2).state = "SUCCESS"
  /\ tcall[0].stage = "completed"

\* C38: the Calls of a trace are in the order in which the calls passed the
\* client middleware's forward phase, and a reverse callback changes nothing
\* but the Call record of its own call, whatever the order in which the
\* responses arrive.
C38_OwnRecordOnly ==
  [][/\ \A id \in TraceIds : \A j, k \in 1 .. Len(tstore'[id].calls) :
          j < k => tstore'[id].calls[j].name < tstore'[id].calls[k].name
     /\ \A c \in TCalls, e \in BOOLEAN, caught \in BOOLEAN :
          ClientReceives(c, e, caught) =>
            \A id \in TraceIds :
              /\ Len(tstore'[id].calls) = Len(tstore[id].calls)
              /\ \A j \in 1 .. Len(tstore[id].calls) :
                   /\ tstore'[id].calls[j].name = tstore[id].calls[j].name
                   /\ tstore[id].calls[j].name # c =>
                        tstore'[id].calls[j] = tstore[id].calls[j]]_vars

C38_Witness ==
  /\ tcall[1].trace = <<"srv", 0>> /\ tcall[2].trace = <<"srv", 0>>
  /\ tcall[1].idx = 1 /\ tcall[2].idx = 2
  /\ tcall[2].stage = "completed" /\ CallOf(2).state = "SUCCESS"
  /\ tcall[1].stage = "responded" /\ CallOf(1).state = "PENDING"

\* C39: a tracing reverse callback invoked with an error passes that error
\* to prev, so the call ends with it; the server's reverse callback writes
\* the trace header when the handler failed as when it succeeded.
C39_ErrorTransparency ==
  [][\A c \in TCalls :
       /\ \A caught \in BOOLEAN :
            ClientReceives(c, TRUE, caught) =>
              tcall'[c].stage = "completed" /\ tcall'[c].err = "transport error"
       /\ \A e \in BOOLEAN :
            HandlerResponds(c, e) => tcall'[c].resHdr # NoHeader]_vars

\* C40: a call emitted with the trace option on a client that has the
\* tracing middleware finds that trace in its locals in the forward phase and
\* never fails with `missing outgoing trace`; a call emitted without the
\* option finds no trace there.
C40_OutgoingTrace ==
  \A c \in TCalls : tcall[c].stage # "none" =>
    IF tcall[c].opts
    THEN /\ tcall[c].err # "missing outgoing trace"
         /\ tcall[c].locals = IF c = 0 THEN AppTrace ELSE <<"srv", 0>>
    ELSE tcall[c].locals = NoTrace

(***************************************************************************)
(* Claims about the proxy's bindings and channels.                         *)
(***************************************************************************)

\* C35: each scope has at most one binding, the one installed by the most
\* recent bind call for that scope, whether of a server or of a client
\* provider; a bind call leaves the bindings of the other scopes unchanged,
\* and nothing else changes a binding.
C35_OneBindingPerScope ==
  [][/\ \A sv \in Servers, sc \in ScopeNames :
          BindServer(sv, sc) =>
            /\ bindings'[sc] = [kind |-> "server", id |-> sv, scope |-> sc]
            /\ \A o \in ScopeNames \ {sc} : bindings'[o] = bindings[o]
     /\ \A pv \in Providers, sc \in ScopeNames :
          BindClientProvider(pv, sc) =>
            /\ bindings'[sc] = [kind |-> "provider", id |-> pv, scope |-> sc]
            /\ \A o \in ScopeNames \ {sc} : bindings'[o] = bindings[o]
     /\ nbinds' = nbinds => bindings' = bindings]_vars

C35_Witness ==
  /\ nbinds = 2
  /\ bindings[ScopeA] = NoBinding
  /\ bindings[ScopeDefault] = [kind |-> "server", id |-> "s2", scope |-> ScopeDefault]

\* C36: when a socket (CONNECT or WebSocket) is attached, if every scope it
\* requests is bound then one channel per requested scope is created, in
\* request order, each on the binding of its scope, and the provider of each
\* provider-bound scope is invoked; if some requested scope is not bound, no
\* channel is created and no provider is invoked.
C36_AllOrNothing ==
  [][\A r \in Reqs :
       (\/ rq[r].method = "CONNECT" /\ ~rq[r].head /\ rstage[r] = "receiver" /\ rcv'[r] = "ok"
        \/ rq[r].method = "UPGRADE" /\ rstage[r] = "upgrading" /\ rstage'[r] # "upgrading") =>
         IF AllBound(r)
         THEN /\ OnBindings(r)
              /\ NewScopes(r) = RequestedScopes(r)
              /\ chanlog'[r] = chanlog[r] \o NewChannels(r)
              /\ provCalls'[r] - provCalls[r] =
                   Cardinality({k \in 1 .. Len(RequestedScopes(r)) :
                                  bindings[RequestedScopes(r)[k]].kind = "provider"})
         ELSE chanlog'[r] = chanlog[r] /\ provCalls'[r] = provCalls[r]]_vars

\* C37: connectHandler writes at most one status line to a socket; the
\* `200 Connection Established` line is written only for a request that is
\* admitted, has no trailing data and whose requested scopes are all bound,
\* and no error status follows it.
C37_OneStatusLine ==
  \A r \in Reqs : rq[r].method = "CONNECT" =>
    /\ Len(sockw[r]) <= 1
    /\ Established(r) =>
         /\ rcv[r] = "ok" /\ ~rq[r].head /\ AllBound(r)
         /\ sockw[r] = <<"200 Connection Established">>

(***************************************************************************)
(* Claims about promisifyServer and promisifyMiddleware.                   *)
(***************************************************************************)

\* C33: a handler of arity at most 1 registered for a two-way message is run
\* as a task: a resolved value v is delivered as cb(undefined, v), a thrown
\* error or rejection e as cb(e), wrapped first when e is a declared error
\* and the message's error type is a wrapped union; the response callback is
\* invoked at most once, and once when the task has settled and its callback
\* has run.  Every other handler is registered unchanged.
C33_TaskHandler ==
  \A s \in Slots : svReg[s] # NoHandler =>
    /\ svReg[s].fn = "wrapper" <=> (svReg[s].msg = "twoWay" /\ svReg[s].arity <= 1)
    /\ svReg[s].fn # "wrapper" => (svReg[s].fn = "handler" /\ svPromise[s] = SvNoPromise)
    /\ Len(svCb[s]) <= 1
    /\ svCb[s] # <<>> =>
         /\ svPromise[s].st = "resolved" =>
              svCb[s][1] = [err |-> "undefined", res |-> svPromise[s].val]
         /\ svPromise[s].st = "rejected" =>
              /\ svCb[s][1].res = "none"
              /\ svCb[s][1].err =
                   IF svPromise[s].val = "declared" /\ svReg[s].errorType = "union:wrapped"
                   THEN "declared.wrapped()" ELSE svPromise[s].val
    /\ svPromise[s].st \in {"none", "pending"} => svCb[s] = <<>>

C33_Witness ==
  /\ svReg[1].errorType = "union:wrapped" /\ svCb[1] # <<>>
  /\ svCb[1][1].err = "declared.wrapped()"
  /\ svReg[2].arity = 2 /\ svReg[2].msg = "twoWay" /\ svReg[2].fn = "handler"

\* C34: use invokes each argument of arity less than 3 exactly once, with
\* the owner, and installs the handler it returns; it installs arguments of
\* arity 3 or more as they are; handlers are installed in argument order and
\* use returns the owner.
C34_DynamicMiddleware ==
  /\ \A o \in Owners :
       LET \* the arguments of the use calls made on o, in call and argument order
           RECURSIVE ArgsOf(_)
           ArgsOf(n) ==
             IF n = 0 THEN <<>>
             ELSE ArgsOf(n - 1) \o (IF usLog[n].owner = o THEN usLog[n].handlers ELSE <<>>)
           args == ArgsOf(Len(usLog))
       IN /\ Len(usFns[o]) = Len(args)
          /\ \A k \in 1 .. Len(args) :
               /\ usFns[o][k].id = args[k].id
               /\ usFns[o][k].owner = o
               /\ usFns[o][k].from = IF args[k].arity < 3 THEN "factory" ELSE "argument"
               /\ args[k].arity >= 3 => usFns[o][k].arity = args[k].arity
          /\ Len(SelectSeq(usFactory, LAMBDA c : c[2] = o)) =
               Cardinality({k \in 1 .. Len(args) : args[k].arity < 3})
          /\ [k \in 1 .. Len(SelectSeq(usFactory, LAMBDA c : c[2] = o)) |->
                SelectSeq(usFactory, LAMBDA c : c[2] = o)[k][1]] =
             SelectSeq(args, LAMBDA h : h.arity < 3)
  /\ \A n \in 1 .. Len(usLog) : usLog[n].returned = usLog[n].owner

C34_Witness ==
  /\ Len(usLog) = 2
  /\ usLog[1].owner = "client" /\ usLog[2].owner = "client"
  /\ Len(usLog[1].handlers) = 2
  /\ usLog[1].handlers[1].arity = 3 /\ usLog[1].handlers[2].arity = 2
  /\ usLog[2].handlers[1].arity = 4
  /\ Len(usFns["client"]) >= 3

====
